---------------------------- MODULE Spec2Model ----------------------------
(***************************************************************************)
(* A model of svg-unjunk's in-page minimizer (window.unjunk) and of the    *)
(* pieces it is built from: the DOM parse / serialize round trip, the      *)
(* candidate generator cleaningOps, the rendering check assertVisuallySame *)
(* and the attribute order restoration fixAttrOrder.                       *)
(*                                                                         *)
(* Markup (a string in the program) is a sequence of top-level nodes; a    *)
(* node is a record [type, name, attrs, children, data]; an attribute is   *)
(* [name, value] and a value is the sequence of its space-separated        *)
(* tokens.  A parsed document is a different value: its                    *)
(* elements and attributes carry the namespace the parser resolved, and    *)
(* the parser puts namespace declarations in front of other attributes.    *)
(***************************************************************************)
EXTENDS Integers, Sequences, FiniteSets, TLC

SVG_NS == "http://www.w3.org/2000/svg"
XLINK_NS == "http://www.w3.org/1999/xlink"
XMLNS_NS == "http://www.w3.org/2000/xmlns/"
XHTML_NS == "http://www.w3.org/1999/xhtml"
NULL_NS == ""

(***************************************************************************)
(* Strings                                                                 *)
(***************************************************************************)
StartsWith(s, p) == Len(s) >= Len(p) /\ SubSeq(s, 1, Len(p)) = p

EndsWith(s, p) == Len(s) >= Len(p) /\ SubSeq(s, Len(s) - Len(p) + 1, Len(s)) = p

RECURSIVE IndexOf(_, _, _)
\* the first position >= from at which the one-character string c occurs in s, or 0
IndexOf(s, c, from) ==
    IF from > Len(s) THEN 0
    ELSE IF SubSeq(s, from, from) = c THEN from
    ELSE IndexOf(s, c, from + 1)

RECURSIVE Join(_, _)
\* the tokens of a value joined by sep
Join(tokens, sep) ==
    IF tokens = <<>> THEN ""
    ELSE IF Len(tokens) = 1 THEN tokens[1]
    ELSE tokens[1] \o sep \o Join(Tail(tokens), sep)

RECURSIVE Split(_, _)
\* the pieces of s between occurrences of the one-character string sep
Split(s, sep) ==
    LET at == IndexOf(s, sep, 1)
    IN  IF at = 0 THEN <<s>>
        ELSE <<SubSeq(s, 1, at - 1)>> \o Split(SubSeq(s, at + 1, Len(s)), sep)

RECURSIVE Trim(_)
\* s without leading and trailing spaces
Trim(s) ==
    IF s = "" THEN s
    ELSE IF SubSeq(s, 1, 1) = " " THEN Trim(SubSeq(s, 2, Len(s)))
    ELSE IF SubSeq(s, Len(s), Len(s)) = " " THEN Trim(SubSeq(s, 1, Len(s) - 1))
    ELSE s

RECURSIVE SumSeq(_)
SumSeq(ns) == IF ns = <<>> THEN 0 ELSE ns[1] + SumSeq(Tail(ns))

RECURSIVE Flatten(_)
\* the concatenation of a sequence of sequences
Flatten(ss) == IF ss = <<>> THEN <<>> ELSE ss[1] \o Flatten(Tail(ss))

Indices(s) == 1..Len(s)

RemoveAt(s, k) == SubSeq(s, 1, k - 1) \o SubSeq(s, k + 1, Len(s))

(***************************************************************************)
(* Markup values                                                           *)
(***************************************************************************)
Attr(n, v) == [name |-> n, value |-> <<v>>]
AttrTokens(n, tokens) == [name |-> n, value |-> tokens]
Elem(n, as, cs) == [type |-> "element", name |-> n, attrs |-> as, children |-> cs, data |-> ""]
Comment(d) == [type |-> "comment", name |-> "", attrs |-> <<>>, children |-> <<>>, data |-> d]

\* the text of an attribute value, as getAttribute() returns it
ValueText(a) == Join(a.value, " ")

\* the namespace-declaration attributes, as XML defines them
IsNsDecl(attrName) == attrName = "xmlns" \/ StartsWith(attrName, "xmlns:")

HasAttr(attrs, n) == \E k \in Indices(attrs) : attrs[k].name = n

AttrIndex(attrs, n) == CHOOSE k \in Indices(attrs) : attrs[k].name = n

GetAttr(attrs, n) == IF HasAttr(attrs, n) THEN ValueText(attrs[AttrIndex(attrs, n)]) ELSE ""


(***************************************************************************)
(* The browser's DOM: DOMParser, XMLSerializer                             *)
(***************************************************************************)
DomAttr(n, ns, tokens) == [name |-> n, namespaceURI |-> ns, value |-> tokens]

\* the prefix of a qualified name, "" when it has none
Prefix(qname) ==
    LET colon == IndexOf(qname, ":", 1)
    IN  IF colon = 0 THEN "" ELSE SubSeq(qname, 1, colon - 1)

\* the namespace bound to prefix by the declarations among attrs, else inherited
BoundNs(attrs, prefix, inherited) ==
    LET decl == IF prefix = "" THEN "xmlns" ELSE "xmlns:" \o prefix
    IN  IF HasAttr(attrs, decl) THEN GetAttr(attrs, decl) ELSE inherited

\* the namespace the XML parser gives an attribute: declarations live in the
\* xmlns namespace, a prefixed name in the namespace bound to its prefix
\* (the model knows the xlink prefix), an unprefixed name in none
AttrNs(attrName, xlinkNs) ==
    IF IsNsDecl(attrName) THEN XMLNS_NS
    ELSE IF Prefix(attrName) = "xlink" THEN xlinkNs
    ELSE NULL_NS

\* Chromium's XML parser hands the namespace declarations of a start tag to
\* the element before its other attributes (src/src/page/unjunk.ts:786)
ParsedAttrs(attrs, xlinkNs) ==
    LET decls == SelectSeq(attrs, LAMBDA a : IsNsDecl(a.name))
        rest == SelectSeq(attrs, LAMBDA a : ~IsNsDecl(a.name))
        all == decls \o rest
    IN  [k \in Indices(all) |-> DomAttr(all[k].name, AttrNs(all[k].name, xlinkNs), all[k].value)]

RECURSIVE ParseNode(_, _, _)
ParseNode(n, defaultNs, xlinkNs) ==
    IF n.type # "element"
    THEN [nodeType |-> n.type, nodeName |-> "#" \o n.type, namespaceURI |-> NULL_NS,
          attributes |-> <<>>, childNodes |-> <<>>, data |-> n.data]
    ELSE LET ns == BoundNs(n.attrs, "", defaultNs)
             xl == BoundNs(n.attrs, "xlink", xlinkNs)
         IN  [nodeType |-> "element", nodeName |-> n.name, namespaceURI |-> ns,
              attributes |-> ParsedAttrs(n.attrs, xl),
              childNodes |-> [k \in Indices(n.children) |-> ParseNode(n.children[k], ns, xl)],
              data |-> ""]

RECURSIVE UnboundPrefix(_, _)
\* some attribute of n or below uses the xlink prefix with no declaration in scope
UnboundPrefix(n, xlinkNs) ==
    /\ n.type = "element"
    /\ LET xl == BoundNs(n.attrs, "xlink", xlinkNs)
       IN  \/ \E k \in Indices(n.attrs) : Prefix(n.attrs[k].name) = "xlink" /\ xl = NULL_NS
           \/ \E k \in Indices(n.children) : UnboundPrefix(n.children[k], xl)

\* XML well-formedness, as far as markup values can break it: exactly one
\* root element and every prefix bound
WellFormed(markup) ==
    /\ Len(SelectSeq(markup, LAMBDA n : n.type = "element")) = 1
    /\ \A k \in Indices(markup) : ~UnboundPrefix(markup[k], NULL_NS)

\* the document DOMParser returns for text that is not well-formed: an
\* error report under a root that is not in the SVG namespace
ParserErrorDocument ==
    [childNodes |-> << [nodeType |-> "element", nodeName |-> "html", namespaceURI |-> XHTML_NS,
                        attributes |-> <<>>, childNodes |-> <<>>, data |-> ""] >>,
     parsererror |-> TRUE]

\* new DOMParser().parseFromString(svgCode, 'image/svg+xml')
ParseFromString(markup) ==
    IF WellFormed(markup)
    THEN [childNodes |-> [k \in Indices(markup) |-> ParseNode(markup[k], NULL_NS, NULL_NS)],
          parsererror |-> FALSE]
    ELSE ParserErrorDocument

\* doc.documentElement: the index of the element child of the document
DocumentElementIndex(doc) ==
    CHOOSE k \in Indices(doc.childNodes) : doc.childNodes[k].nodeType = "element"

DocumentElement(doc) == doc.childNodes[DocumentElementIndex(doc)]

\* the index of attribute qname in a DOM attribute list, 0 when absent
DomAttrIndex(attributes, qname) ==
    IF \E k \in Indices(attributes) : attributes[k].name = qname
    THEN CHOOSE k \in Indices(attributes) :
            /\ attributes[k].name = qname
            /\ \A j \in 1..(k - 1) : attributes[j].name # qname
    ELSE 0

HasAttribute(el, qname) == DomAttrIndex(el.attributes, qname) # 0

\* el.getAttribute(qname) || ''
GetAttribute(el, qname) ==
    IF HasAttribute(el, qname)
    THEN ValueText(el.attributes[DomAttrIndex(el.attributes, qname)])
    ELSE ""

\* el.setAttribute(qname, value): an existing attribute keeps its place, a new
\* one is appended and, set this way, has no namespace
SetAttribute(el, qname, tokens) ==
    LET k == DomAttrIndex(el.attributes, qname)
    IN  IF k # 0
        THEN [el EXCEPT !.attributes[k].value = tokens]
        ELSE [el EXCEPT !.attributes = Append(@, DomAttr(qname, NULL_NS, tokens))]

\* el.removeAttribute(qname)
RemoveAttribute(el, qname) ==
    LET k == DomAttrIndex(el.attributes, qname)
    IN  IF k = 0 THEN el ELSE [el EXCEPT !.attributes = RemoveAt(@, k)]

\* the element declares the xlink prefix itself
DeclaresXlink(el) ==
    \E k \in Indices(el.attributes) :
        el.attributes[k].name = "xmlns:xlink" /\ el.attributes[k].namespaceURI = XMLNS_NS

RECURSIVE SerializeAttrs(_, _)
\* the attributes in order; an attribute in the xlink namespace whose prefix
\* has no declaration in scope gets one written right before it
SerializeAttrs(attributes, xlinkInScope) ==
    IF attributes = <<>> THEN <<>>
    ELSE LET a == attributes[1]
             needsDecl == a.namespaceURI = XLINK_NS /\ ~xlinkInScope
             own == [name |-> a.name, value |-> a.value]
         IN  (IF needsDecl THEN << Attr("xmlns:xlink", XLINK_NS), own >> ELSE << own >>)
             \o SerializeAttrs(Tail(attributes), xlinkInScope \/ needsDecl)

UsesXlink(el) == \E k \in Indices(el.attributes) : el.attributes[k].namespaceURI = XLINK_NS

RECURSIVE SerializeNode(_, _)
SerializeNode(n, xlinkInScope) ==
    IF n.nodeType # "element"
    THEN [type |-> n.nodeType, name |-> "", attrs |-> <<>>, children |-> <<>>, data |-> n.data]
    ELSE LET declared == xlinkInScope \/ DeclaresXlink(n)
         IN  [type |-> "element", name |-> n.nodeName,
              attrs |-> SerializeAttrs(n.attributes, declared),
              children |-> [k \in Indices(n.childNodes) |->
                               SerializeNode(n.childNodes[k], declared \/ UsesXlink(n))],
              data |-> ""]

\* serialize (src/src/page/unjunk.ts:707): new XMLSerializer().serializeToString(doc)
serialize(doc) == [k \in Indices(doc.childNodes) |-> SerializeNode(doc.childNodes[k], FALSE)]

(***************************************************************************)
(* parse (src/src/page/unjunk.ts:681).  The result is                      *)
(* [ok, doc, recoveries]: ok = FALSE stands for the SyntaxError thrown,    *)
(* recoveries counts the re-parses after injecting xmlns.                  *)
(***************************************************************************)
ParseFailure(n) == [ok |-> FALSE, doc |-> ParserErrorDocument, recoveries |-> n]

RECURSIVE parseFrom(_, _)
parseFrom(svgCode, depth) ==
    LET doc == ParseFromString(svgCode)
        root == DocumentElement(doc)
        k == DocumentElementIndex(doc)
    IN  IF root.namespaceURI # SVG_NS
        THEN IF doc.parsererror THEN ParseFailure(depth)
             ELSE IF root.namespaceURI # NULL_NS THEN ParseFailure(depth)
             ELSE parseFrom(serialize([doc EXCEPT !.childNodes[k] =
                                          SetAttribute(root, "xmlns", <<SVG_NS>>)]),
                            depth + 1)
        ELSE IF root.nodeName # "svg" THEN ParseFailure(depth)
        ELSE [ok |-> TRUE, doc |-> doc, recoveries |-> depth]

\* a parse that takes whatever is well-formed, to compare with parse
parseLenient(svgCode) ==
    [ok |-> ~ParseFromString(svgCode).parsererror, doc |-> ParseFromString(svgCode),
     recoveries |-> 0]

parse(svgCode) == parseFrom(svgCode, 0)

(***************************************************************************)
(* The candidate generator cleaningOps (src/src/page/unjunk.ts:584).       *)
(* A candidate is a record [kind, path, arg, color, opacity]: path leads   *)
(* from the document to the node the closure holds, arg is the attribute,  *)
(* class or property name it removes (the id for a gradient), color and    *)
(* opacity are the values inlineGradient reads before it yields.           *)
(***************************************************************************)
doNotRemoveAttrs ==
    { "xmlns", "viewBox", "width", "height", "r", "rx", "ry", "cx", "cy",
      "x", "y", "x1", "x2", "y1", "y2", "d", "offset", "stop-color", "filterUnits" }

\* a set that has a shape in it, to compare with unwrapElements
unwrapElementsAndRect == { "g", "svg", "rect" }

unwrapElements == { "g", "svg" }

\* RE_XMLNS_ATTR = /^xmlns(?:|$)/ : the alternation's first branch is empty, so
\* the expression matches every name that starts with xmlns
RE_XMLNS_ATTR(attrName) == StartsWith(attrName, "xmlns")

RECURSIVE sortAttrsFrom(_, _)
\* the loop of sortAttrs with i the index (from 1) still to be looked at
sortAttrsFrom(attrNames, i) ==
    IF i = 0 THEN attrNames
    ELSE IF RE_XMLNS_ATTR(attrNames[i])
         THEN sortAttrsFrom(RemoveAt(Append(attrNames, attrNames[i]), i), i - 1)
         ELSE sortAttrsFrom(attrNames, i - 1)

sortAttrs(attrNames) == sortAttrsFrom(attrNames, Len(attrNames))

Op(kind, path, arg) == [kind |-> kind, path |-> path, arg |-> arg, color |-> "", opacity |-> ""]

\* the local name of a qualified name
LocalName(qname) ==
    LET colon == IndexOf(qname, ":", 1)
    IN  IF colon = 0 THEN qname ELSE SubSeq(qname, colon + 1, Len(qname))

\* el.hasAttributeNS('http://www.w3.org/1999/xlink', 'href')
HasXlinkHref(el) ==
    \E k \in Indices(el.attributes) :
        el.attributes[k].namespaceURI = XLINK_NS /\ LocalName(el.attributes[k].name) = "href"

RECURSIVE Dedupe(_)
Dedupe(tokens) ==
    IF tokens = <<>> THEN <<>>
    ELSE <<tokens[1]>> \o Dedupe(SelectSeq(Tail(tokens), LAMBDA t : t # tokens[1]))

\* Array.from(el.classList)
ClassList(el) ==
    IF HasAttribute(el, "class")
    THEN Dedupe(el.attributes[DomAttrIndex(el.attributes, "class")].value)
    ELSE <<>>

\* the property name and the value of a style declaration "name:value"
PropertyName(decl) ==
    LET colon == IndexOf(decl, ":", 1)
    IN  IF colon = 0 THEN Trim(decl) ELSE Trim(SubSeq(decl, 1, colon - 1))

PropertyValue(decl) ==
    LET colon == IndexOf(decl, ":", 1)
    IN  IF colon = 0 THEN "" ELSE Trim(SubSeq(decl, colon + 1, Len(decl)))

\* the declarations of el's inline style (el.style), read from its attribute
StyleDeclarations(el) ==
    IF HasAttribute(el, "style")
    THEN SelectSeq(Split(GetAttribute(el, "style"), ";"), LAMBDA d : Trim(d) # "")
    ELSE <<>>

\* Array.from(el.style)
StyleProps(el) ==
    LET decls == StyleDeclarations(el)
    IN  Dedupe([k \in Indices(decls) |-> PropertyName(decls[k])])

RECURSIVE QuerySelectorStop(_)
\* grad.querySelector('stop'): the first stop below the nodes, in document
\* order, as a sequence of at most one element
QuerySelectorStop(nodes) ==
    IF nodes = <<>> THEN <<>>
    ELSE LET n == nodes[1]
             here == IF n.nodeType = "element" /\ n.nodeName = "stop" THEN <<n>>
                     ELSE IF n.nodeType = "element" THEN QuerySelectorStop(n.childNodes)
                     ELSE <<>>
         IN  IF here # <<>> THEN here ELSE QuerySelectorStop(Tail(nodes))

\* refStop.getAttribute(name) || fallback
AttributeOr(el, qname, fallback) ==
    IF GetAttribute(el, qname) = "" THEN fallback ELSE GetAttribute(el, qname)

\* inlineGradient (src/src/page/unjunk.ts:552): the candidates it yields
inlineGradient(grad, path) ==
    IF ~HasAttribute(grad, "id") THEN <<>>
    ELSE LET refStop == QuerySelectorStop(grad.childNodes)
         IN  IF refStop = <<>> THEN <<>>
             ELSE << [kind |-> "inlineGradient", path |-> path,
                      arg |-> "#" \o GetAttribute(grad, "id"),
                      color |-> AttributeOr(refStop[1], "stop-color", "black"),
                      opacity |-> AttributeOr(refStop[1], "stop-opacity", "1")] >>

\* the candidates for the attributes of el: lines 631 to 643
AttributeOps(el, path) ==
    LET attrNames == sortAttrs([k \in Indices(el.attributes) |-> el.attributes[k].name])
        kept == SelectSeq(attrNames, LAMBDA n : n \notin doNotRemoveAttrs)
    IN  [k \in Indices(kept) |-> Op("removeAttribute", path, kept[k])]

RECURSIVE cleaningOpsFrom(_, _, _, _)
\* the candidates of the children k, k + 1, ... of parentNode, whose path is
\* parentPath; parentIsElement is parentNode.nodeType === Node.ELEMENT_NODE
cleaningOpsFrom(childNodes, k, parentPath, parentIsElement) ==
    IF k > Len(childNodes) THEN <<>>
    ELSE LET child == childNodes[k]
             path == Append(parentPath, k)
             isElement == child.nodeType = "element"
             classes == IF isElement THEN ClassList(child) ELSE <<>>
             props == IF isElement THEN StyleProps(child) ELSE <<>>
         IN  (IF parentIsElement \/ ~isElement THEN << Op("removeChild", path, "") >> ELSE <<>>)
             \o (IF ~isElement THEN <<>>
                 ELSE cleaningOpsFrom(child.childNodes, 1, path, TRUE)
                      \o (IF HasXlinkHref(child) THEN << Op("xlinkHref", path, "") >> ELSE <<>>)
                      \o AttributeOps(child, path)
                      \o [j \in Indices(classes) |-> Op("removeClass", path, classes[j])]
                      \o [j \in Indices(props) |-> Op("removeStyle", path, props[j])]
                      \o (IF child.nodeName \in {"linearGradient", "radialGradient"}
                          THEN inlineGradient(child, path) ELSE <<>>)
                      \o (IF child.nodeName \in unwrapElements /\ parentIsElement
                          THEN << Op("unwrap", path, "") >> ELSE <<>>))
             \o cleaningOpsFrom(childNodes, k + 1, parentPath, parentIsElement)

\* a generator that yields its candidates last to first, to compare with
\* cleaningOps
cleaningOpsBackwards(doc) ==
    LET s == cleaningOpsFrom(doc.childNodes, 1, <<>>, FALSE)
    IN  [k \in Indices(s) |-> s[Len(s) + 1 - k]]

\* a generator that treats the document as an element, to compare with cleaningOps
cleaningOpsUnderElement(doc) == cleaningOpsFrom(doc.childNodes, 1, <<>>, TRUE)

\* cleaningOps(doc): every candidate the generator yields, in order
cleaningOps(doc) == cleaningOpsFrom(doc.childNodes, 1, <<>>, FALSE)

(***************************************************************************)
(* Applying a candidate: the body of each closure                          *)
(***************************************************************************)
\* the backtrack a closure returns: a number, or Infinity
Finite(n) == [infinite |-> FALSE, n |-> n]
Infinity == [infinite |-> TRUE, n |-> 0]

\* el.classList.remove(className)
RemoveClass(el, className) ==
    LET k == DomAttrIndex(el.attributes, "class")
    IN  IF k = 0 THEN el
        ELSE [el EXCEPT !.attributes[k].value = SelectSeq(@, LAMBDA t : t # className)]

\* el.style.removeProperty(styleProp): the style attribute becomes the text
\* CSSOM writes for the declarations left, "name: value;" separated by spaces
RemoveProperty(el, styleProp) ==
    LET k == DomAttrIndex(el.attributes, "style")
        left == SelectSeq(StyleDeclarations(el), LAMBDA d : PropertyName(d) # styleProp)
        cssText == [j \in Indices(left) |->
                       PropertyName(left[j]) \o ": " \o PropertyValue(left[j]) \o ";"]
    IN  IF k = 0 THEN el
        ELSE [el EXCEPT !.attributes[k].value =
                            IF left = <<>> THEN <<>> ELSE <<Join(cssText, " ")>>]

\* a rewrite that adds href and keeps xlink:href, to compare with RewriteAttrs
RewriteAttrsKeepingXlink(el, attrNodes) ==
    SetAttribute(el, "href", << GetAttribute(el, "xlink:href") >>)

RECURSIVE RewriteAttrs(_, _)
\* the loop of the xlink:href closure over the attribute nodes it listed
RewriteAttrs(el, attrNodes) ==
    IF attrNodes = <<>> THEN el
    ELSE LET attrNode == attrNodes[1]
             nodeValue == IF HasAttribute(el, attrNode.name)
                          THEN el.attributes[DomAttrIndex(el.attributes, attrNode.name)].value
                          ELSE attrNode.value
             removed == RemoveAttribute(el, attrNode.name)
             target == IF attrNode.namespaceURI = XLINK_NS /\ LocalName(attrNode.name) = "href"
                       THEN "href" ELSE attrNode.name
         IN  RewriteAttrs(SetAttribute(removed, target, nodeValue), Tail(attrNodes))

\* the argument of url(...) in an attribute value: match[1] of RE_URL_FUNCTION,
\* "" when the expression does not match
UrlArgument(text) ==
    IF StartsWith(text, "url(") /\ EndsWith(text, ")") /\ Len(text) >= 5
    THEN SubSeq(text, 5, Len(text) - 1)
    ELSE ""

\* an inlining of the colour alone, to compare with InlineInto
InlineIntoWithoutOpacity(el, attrName, op) ==
    IF HasAttribute(el, attrName) /\ UrlArgument(GetAttribute(el, attrName)) = op.arg
    THEN SetAttribute(el, attrName, <<op.color>>)
    ELSE el

\* one element of the loop at lines 565 to 571
InlineInto(el, attrName, op) ==
    IF HasAttribute(el, attrName) /\ UrlArgument(GetAttribute(el, attrName)) = op.arg
    THEN SetAttribute(SetAttribute(el, attrName, <<op.color>>),
                      attrName \o "-opacity", <<op.opacity>>)
    ELSE el

RECURSIVE InlineAll(_, _, _)
\* the loop over grad.ownerDocument.querySelectorAll(`[${attrName}]`)
InlineAll(n, attrName, op) ==
    IF n.nodeType # "element" THEN n
    ELSE LET el == InlineInto(n, attrName, op)
         IN  [el EXCEPT !.childNodes =
                  [k \in Indices(n.childNodes) |-> InlineAll(n.childNodes[k], attrName, op)]]

\* what the closure leaves in place of the node it holds
EditNode(n, op) ==
    CASE op.kind = "removeChild" -> <<>>
      [] op.kind = "xlinkHref" -> << RewriteAttrs(n, n.attributes) >>
      [] op.kind = "removeAttribute" -> << RemoveAttribute(n, op.arg) >>
      [] op.kind = "removeClass" -> << RemoveClass(n, op.arg) >>
      [] op.kind = "removeStyle" -> << RemoveProperty(n, op.arg) >>
      [] op.kind = "inlineGradient" -> <<>>
      [] op.kind = "unwrap" -> n.childNodes

RECURSIVE EditAt(_, _, _)
EditAt(childNodes, path, op) ==
    LET k == path[1]
    IN  IF Len(path) = 1
        THEN SubSeq(childNodes, 1, k - 1) \o EditNode(childNodes[k], op)
             \o SubSeq(childNodes, k + 1, Len(childNodes))
        ELSE [childNodes EXCEPT ![k].childNodes = EditAt(@, Tail(path), op)]

\* the document after op()
ApplyOp(doc, op) ==
    LET inlined ==
            IF op.kind # "inlineGradient" THEN doc.childNodes
            ELSE LET fills == [k \in Indices(doc.childNodes) |->
                                  InlineAll(doc.childNodes[k], "fill", op)]
                 IN  [k \in Indices(fills) |-> InlineAll(fills[k], "stroke", op)]
    IN  [doc EXCEPT !.childNodes = EditAt(inlined, op.path, op)]

\* the backtrack op() returns
OpBacktrack(op) ==
    CASE op.kind = "inlineGradient" -> Infinity
      [] op.kind = "unwrap" -> Finite(1)
      [] OTHER -> Finite(0)

\* forceLossless for attributes only, to compare with OpForceLossless
OpForceLosslessAttributes(op) == op.kind = "removeAttribute" /\ StartsWith(op.arg, "stroke-")

\* the forceLossless op() returns
OpForceLossless(op) ==
    /\ op.kind \in {"removeAttribute", "removeStyle"}
    /\ StartsWith(op.arg, "stroke-")

(***************************************************************************)
(* The size of markup in bytes, as Buffer.byteLength measures the string   *)
(***************************************************************************)
AttrLength(a) == 1 + Len(a.name) + 2 + Len(ValueText(a)) + 1

RECURSIVE NodeLength(_)
NodeLength(n) ==
    CASE n.type = "comment" -> 4 + Len(n.data) + 3
      [] n.type = "element" ->
            1 + Len(n.name)
            + SumSeq([k \in Indices(n.attrs) |-> AttrLength(n.attrs[k])])
            + (IF n.children = <<>> THEN 2
               ELSE 1 + SumSeq([k \in Indices(n.children) |-> NodeLength(n.children[k])])
                    + 2 + Len(n.name) + 1)
      [] OTHER -> Len(n.data)

byteLength(markup) == SumSeq([k \in Indices(markup) |-> NodeLength(markup[k])])

(***************************************************************************)
(* getAttrs and fixAttrOrder (src/src/page/unjunk.ts:804, 825).  A         *)
(* PhysAttr is [name, raw]: raw is the attribute as written; start and end *)
(* are its place in the tag, which is its index in the sequence.           *)
(***************************************************************************)
RECURSIVE FirstSvgTag(_)
\* svgCode.indexOf('<svg'): the first start tag, in text order, that begins
\* with <svg, as a sequence of at most one element
FirstSvgTag(nodes) ==
    IF nodes = <<>> THEN <<>>
    ELSE LET n == nodes[1]
             here == IF n.type = "element" /\ StartsWith(n.name, "svg") THEN <<n>>
                     ELSE IF n.type = "element" THEN FirstSvgTag(n.children)
                     ELSE <<>>
         IN  IF here # <<>> THEN here ELSE FirstSvgTag(Tail(nodes))

\* reAttr starts right behind "<svg" and wants white space first: a longer
\* tag name gives no attributes
getAttrs(svgCode) ==
    LET tag == FirstSvgTag(svgCode)
    IN  IF tag = <<>> THEN <<>>
        ELSE IF tag[1].name # "svg" THEN <<>>
        ELSE [k \in Indices(tag[1].attrs) |-> [name |-> tag[1].attrs[k].name, raw |-> tag[1].attrs[k]]]

\* the last index at which name occurs in physAttrs, from 0; -1 when absent
LastIndexOf(physAttrs, name) ==
    IF \E k \in Indices(physAttrs) : physAttrs[k].name = name
    THEN (CHOOSE k \in Indices(physAttrs) :
             /\ physAttrs[k].name = name
             /\ \A j \in (k + 1)..Len(physAttrs) : physAttrs[j].name # name) - 1
    ELSE -1

\* keys that put the original attributes in front, to compare with attrOrder
attrOrderOriginalsFirst(name, newAttrs, originalAttrs) ==
    IF LastIndexOf(originalAttrs, name) >= 0
    THEN LastIndexOf(originalAttrs, name)
    ELSE Len(originalAttrs) + LastIndexOf(newAttrs, name)

\* attrOrder.get(name) after the two loops at lines 835 to 840
attrOrder(name, newAttrs, originalAttrs) ==
    IF LastIndexOf(originalAttrs, name) >= 0
    THEN Len(newAttrs) + LastIndexOf(originalAttrs, name)
    ELSE LastIndexOf(newAttrs, name)

RECURSIVE InsertSorted(_, _, _, _)
\* a put into the sorted sequence behind every element whose key is not larger
InsertSorted(sorted, a, newAttrs, originalAttrs) ==
    IF sorted = <<>> THEN <<a>>
    ELSE IF attrOrder(sorted[1].name, newAttrs, originalAttrs)
            <= attrOrder(a.name, newAttrs, originalAttrs)
         THEN <<sorted[1]>> \o InsertSorted(Tail(sorted), a, newAttrs, originalAttrs)
         ELSE <<a>> \o sorted

RECURSIVE SortAttrsByOrder(_, _, _, _)
\* newAttrs.sort(...) at line 842: Array.prototype.sort is stable
SortAttrsByOrder(todo, sorted, newAttrs, originalAttrs) ==
    IF todo = <<>> THEN sorted
    ELSE SortAttrsByOrder(Tail(todo), InsertSorted(sorted, todo[1], newAttrs, originalAttrs),
                          newAttrs, originalAttrs)

RECURSIVE SpliceFirstSvgTag(_, _)
\* the markup with the attributes of its first <svg tag replaced by raws
SpliceFirstSvgTag(nodes, raws) ==
    IF nodes = <<>> THEN <<>>
    ELSE LET n == nodes[1]
         IN  IF n.type = "element" /\ StartsWith(n.name, "svg")
             THEN << [n EXCEPT !.attrs = raws] >> \o Tail(nodes)
             ELSE IF n.type = "element" /\ FirstSvgTag(n.children) # <<>>
             THEN << [n EXCEPT !.children = SpliceFirstSvgTag(n.children, raws)] >> \o Tail(nodes)
             ELSE <<n>> \o SpliceFirstSvgTag(Tail(nodes), raws)

\* a return of the markup as the DOM serializes it, to compare with fixAttrOrder
fixAttrOrderAsSerialized(svgCode, originalAttrs) == serialize(parse(svgCode).doc)

\* a splice whose tail starts at the start of the last attribute and not at
\* its end, to compare with fixAttrOrder
fixAttrOrderKeepingLast(svgCode, originalAttrs) ==
    LET newAttrs == getAttrs(svgCode)
        sorted == SortAttrsByOrder(newAttrs, <<>>, newAttrs, originalAttrs)
    IN  IF Len(newAttrs) = 0 THEN svgCode
        ELSE SpliceFirstSvgTag(svgCode, [k \in Indices(sorted) |-> sorted[k].raw]
                                        \o << newAttrs[Len(newAttrs)].raw >>)

\* lines 825 to 844
fixAttrOrder(svgCode, originalAttrs) ==
    LET newAttrs == getAttrs(svgCode)
        sorted == SortAttrsByOrder(newAttrs, <<>>, newAttrs, originalAttrs)
    IN  IF Len(newAttrs) = 0 THEN svgCode
        ELSE SpliceFirstSvgTag(svgCode, [k \in Indices(sorted) |-> sorted[k].raw])

(***************************************************************************)
(* Bounds.  MaxRestarts stands for the 1000 of line 745; the scores a      *)
(* comparator returns are drawn from 0..MaxScore1x at scale 1 and from     *)
(* 0..MaxScore2x at scale 2.                                               *)
(***************************************************************************)
MaxRestarts == 5
MaxScore1x == 1
MaxScore2x == 3

(***************************************************************************)
(* The markups minimize is called with                                     *)
(***************************************************************************)
XmlnsSvg == Attr("xmlns", SVG_NS)
XmlnsXlink == Attr("xmlns:xlink", XLINK_NS)

\* presentation attributes at their defaults
InputFill ==
    << Elem("svg", << XmlnsSvg, Attr("fill", "red"), Attr("fill-opacity", "1") >>,
            << Elem("rect", << Attr("fill", "red") >>, <<>>) >>) >>
\* a group around one shape
InputGroup ==
    << Elem("svg", << XmlnsSvg >>, << Elem("g", <<>>, << Elem("rect", <<>>, <<>>) >>) >>) >>
\* a gradient of one stop, referenced four times
InputGradient ==
    << Elem("svg", << XmlnsSvg >>,
            << Elem("linearGradient", << Attr("id", "g") >>, << Elem("stop", <<>>, <<>>) >>),
               Elem("rect", << Attr("fill", "url(#g)"), Attr("stroke", "url(#g)") >>, <<>>),
               Elem("rect", << Attr("fill", "url(#g)"), Attr("stroke", "url(#g)") >>, <<>>) >>) >>
\* a root without xmlns
InputNoXmlns == << Elem("svg", << Attr("width", "1") >>, << Comment("c") >>) >>
InputBare == << Elem("svg", <<>>, <<>>) >>
\* xlink declared on the element that uses it, and on the root
InputXlinkLocal ==
    << Elem("svg", << XmlnsSvg >>,
            << Elem("use", << XmlnsXlink, Attr("xlink:href", "#a") >>, <<>>) >>) >>
InputXlinkRoot ==
    << Elem("svg", << XmlnsSvg, XmlnsXlink >>,
            << Elem("use", << Attr("xlink:href", "#a") >>, <<>>) >>) >>
\* a link that has the plain href and the xlink one, with different values
InputHrefTwice ==
    << Elem("svg", << XmlnsSvg, XmlnsXlink >>,
            << Elem("a", << Attr("href", "x"), Attr("xlink:href", "y") >>, <<>>) >>) >>
\* xlink declared on the root and used by two elements
InputXlinkTwice ==
    << Elem("svg", << XmlnsSvg, XmlnsXlink >>,
            << Elem("a", << Attr("xlink:title", "t") >>, <<>>),
               Elem("a", << Attr("xlink:title", "t") >>, <<>>) >>) >>
\* a comment in front of a root whose xmlns is not its first attribute
InputComment ==
    << Comment("c"), Elem("svg", << Attr("width", "1"), XmlnsSvg, Attr("id", "a") >>, <<>>) >>
\* stroke-* as an attribute and as a style property
InputStroke ==
    << Elem("svg", << XmlnsSvg >>,
            << Elem("path", << Attr("stroke-width", "2"),
                               Attr("style", "stroke-dasharray:1;fill:red") >>, <<>>) >>) >>
InputClass ==
    << Elem("svg", << XmlnsSvg >>,
            << Elem("g", << AttrTokens("class", <<"a", "b">>) >>, <<>>) >>) >>
InputStyle ==
    << Elem("svg", << XmlnsSvg >>,
            << Elem("ellipse", << Attr("style", "cx:1;cy:2;rx:3;ry:4") >>, <<>>) >>) >>
InputNested ==
    << Elem("svg", << XmlnsSvg >>, << Elem("svg", <<>>, << Elem("rect", <<>>, <<>>) >>) >>) >>
\* a root that uses the xlink prefix it declares, with a class and with an
\* attribute whose name starts with xmlns though it declares no namespace
InputXmlnsLike ==
    << Elem("svg", << XmlnsSvg, Attr("xmlnsfoo", "1"), XmlnsXlink, Attr("xlink:title", "t"),
                      AttrTokens("class", <<"a">>) >>, <<>>) >>
\* a root that sets its colour with the presentation attribute
InputRootColor ==
    << Elem("svg", << XmlnsSvg, Attr("color", "red") >>, <<>>) >>
\* a root that sets its fill with the attribute and its background in the style
InputRootPaint ==
    << Elem("svg", << XmlnsSvg, Attr("fill", "blue"), Attr("style", "background:red") >>, <<>>) >>
\* markups parse refuses
InputOtherNs == << Elem("svg", << Attr("xmlns", XHTML_NS) >>, <<>>) >>
InputUpperCase == << Elem("SVG", << XmlnsSvg >>, <<>>) >>
InputNotSvg == << Elem("html", <<>>, << Elem("svg", << XmlnsSvg >>, <<>>) >>) >>
InputUnbound == << Elem("svg", << XmlnsSvg >>, << Elem("use", << Attr("xlink:href", "#a") >>, <<>>) >>) >>
InputNoRoot == << Comment("c") >>

Inputs ==
    { InputFill, InputGroup, InputGradient, InputNoXmlns, InputBare, InputXlinkLocal,
      InputXlinkRoot, InputXlinkTwice, InputComment, InputStroke, InputClass, InputStyle, InputNested,
      InputXmlnsLike, InputHrefTwice, InputRootColor, InputRootPaint, InputOtherNs, InputUpperCase, InputNotSvg, InputUnbound, InputNoRoot }

(***************************************************************************)
(* window.unjunk (src/src/page/unjunk.ts:737) as a state machine.  pc is   *)
(* the place of the call: "start" before line 738, "loop" at the head of   *)
(* the outer for, "next" at opGenerator.next(), "compare" at an await of   *)
(* comparator.compare, "finish" behind the loop, "done" after the return   *)
(* and "failed" after an exception left the function.                      *)
(***************************************************************************)
VARIABLES
    input,          \* the svgCode argument of the call
    lossless,       \* Boolean(options.lossless)
    pc,
    svgCode,        \* the committed markup
    originalAttrs,
    skipOps,
    i,
    doc,            \* the working document of this restart
    ops,            \* the closures opGenerator yields for doc, in order
    opNumber,
    op,             \* the closure applied last
    newSvgCode,
    backtrack,
    strict,         \* the lossless parameter of assertVisuallySame
    comparator,     \* index into comparators
    scale,          \* the scale of the compare call awaited
    defectScore1x,
    rasterized,     \* the markups the rasterizers of the compare call awaited hold
    output,         \* the returned markup
    log,            \* the compare calls of the validation, with what they gave
    verdict,        \* how the validation of this restart ended
    calls,          \* compare calls since the start
    submitted,      \* assertVisuallySame calls of this restart
    recoveries,     \* xmlns repairs parse made for the argument
    mayGrow,        \* a documented lengthening change was committed
    resumedAt,      \* skipOps as the last acceptance left it
    memo,           \* what the oracle answered for a pair of markups
    run,            \* 1 for the call on the input, 2 for the call on its output
    first,          \* how the first call ended
    reordered,      \* fixAttrOrder changed the committed markup
    trail,          \* the candidates validated in this call, with their verdicts
                    \* and whether a 2x render was needed to accept them
    console,        \* what console.log was given in this call
    parallel,       \* options.parallel of the SvgUnjunk constructor
    maxPages,       \* PagePool._maxPages
    freePages,      \* PagePool._freePages
    resolutionQueue,\* PagePool._resolutionQueue: the callers whose resolve waits
    poolSize,       \* PagePool._poolSize
    pages,          \* the _createPage calls made, in order: "creating", "ready", "failed"
    microtasks,     \* the continuations of await alloc() that are due, in order
    callers,        \* per call of process: where it is, its page, its free calls
    issued,         \* the callers in the order of their alloc calls
    handed,         \* the callers in the order in which alloc's promise resolved
    files,          \* per file name of the command line: how far runForFile is
    exitCode,       \* process.exitCode, or the argument of process.exit
    mainPc,         \* where main of the command line tool is
    browsers,       \* per SvgUnjunk instance: its browser and its destroy calls
    unhandled       \* rejections that no handler took

vars ==
    << input, lossless, pc, svgCode, originalAttrs, skipOps, i, doc, ops, opNumber, op,
       newSvgCode, backtrack, strict, comparator, scale, defectScore1x, rasterized, output,
       log, verdict, calls, submitted, recoveries, mayGrow, resumedAt, memo, run, first,
       reordered, trail, console, parallel, maxPages, freePages, resolutionQueue,
       poolSize, pages, microtasks, callers, issued, handed,
       files, exitCode, mainPc, browsers, unhandled >>

\* what a call does not touch
\* the Node side: the pool and the calls of process
host == << parallel, maxPages, freePages, resolutionQueue, poolSize, pages, microtasks,
           callers, issued, handed >>
\* the Node side: the script that owns the SvgUnjunk instances
script == << files, exitCode, mainPc, browsers, unhandled >>
call == << input, lossless, run, first, host, script >>
journal == << trail, console >>
frame == << call, memo, reordered, journal >>
\* the state of a validation
validation ==
    << newSvgCode, backtrack, strict, comparator, scale, defectScore1x, rasterized >>
\* the state of a restart
restart == << doc, ops, opNumber, op >>

NoMarkup == <<>>
NoDocument == [childNodes |-> <<>>, parsererror |-> FALSE]
NoOp == Op("none", <<>>, "")
NoRun == [output |-> NoMarkup, converged |-> FALSE, resumedAt |-> 0, reordered |-> FALSE,
          lossless |-> FALSE, trail |-> <<>>]

\* comparators at line 741
comparators == << "DefaultImageComparator", "RecoloredImageComparator" >>

\* what a compare call can give: a score, or an exception
Score(n) == [threw |-> FALSE, score |-> n]
Thrown == [threw |-> TRUE, score |-> 0]
OracleResults(s) ==
    {Thrown} \cup {Score(n) : n \in 0..(IF s = 1 THEN MaxScore1x ELSE MaxScore2x)}

\* el.style[prop]: the value of the last declaration of the property, "" without one
StyleValue(el, prop) ==
    LET decls == SelectSeq(StyleDeclarations(el), LAMBDA d : PropertyName(d) = prop)
    IN  IF decls = <<>> THEN "" ELSE PropertyValue(decls[Len(decls)])

\* el.style[prop] = value for a property the style does not have: the style
\* attribute becomes the text CSSOM writes, with the new declaration last.
\* The value is written as it was assigned.
SetProperty(el, prop, value) ==
    LET decls == StyleDeclarations(el)
        cssText == [j \in Indices(decls) |->
                       PropertyName(decls[j]) \o ": " \o PropertyValue(decls[j]) \o ";"]
    IN  SetAttribute(el, "style", << Join(Append(cssText, prop \o ": " \o value \o ";"), " ") >>)

\* lines 497 to 525: the defaults _transformCode of the comparator c sets on
\* the root, in the order of the code.  The test for fill reads the fill
\* attribute too (line 515), the tests for background and color read the
\* style alone.
PolicyDefaults(c) ==
    IF comparators[c] = "DefaultImageComparator"
    THEN << [prop |-> "background", value |-> "#fff", attribute |-> FALSE] >>
    ELSE << [prop |-> "background", value |-> "#000", attribute |-> FALSE],
            [prop |-> "fill", value |-> "#f0f", attribute |-> TRUE],
            [prop |-> "color", value |-> "#ff0", attribute |-> FALSE] >>

RECURSIVE InjectDefaults(_, _)
\* lines 499 to 501 and 511 to 521: each default is set where the test of
\* the code finds nothing
InjectDefaults(el, defaults) ==
    IF defaults = <<>> THEN el
    ELSE LET d == defaults[1]
             inStyle == StyleValue(el, d.prop)
             found == IF inStyle # "" THEN inStyle
                      ELSE IF d.attribute THEN Trim(GetAttribute(el, d.prop))
                      ELSE ""
         IN  InjectDefaults(IF found = "" THEN SetProperty(el, d.prop, d.value) ELSE el,
                            Tail(defaults))

\* _transformCode of the comparator c of the list (lines 498 to 504 and 508
\* to 524): parse, the defaults on documentElement, serialize.  The
\* attributes of the root are taken as a sequence of their own, so that the
\* changes are made to values and not to the function parse builds.
transformCode(c, code) ==
    LET document == parse(code).doc
        at == DocumentElementIndex(document)
        root == [document.childNodes[at] EXCEPT !.attributes = SubSeq(@, 1, Len(@))]
        styled == InjectDefaults(root, PolicyDefaults(c))
    IN  serialize([document EXCEPT
                      !.childNodes = [k \in Indices(@) |-> IF k = at THEN styled ELSE @[k]]])

\* _transformCode of both comparators parses the markup first
Transformable(code) == parse(code).ok

RECURSIVE Rasterizers(_, _)
\* lines 455 to 457: the markups the rasterizers of compare(a, b, scale) hold,
\* with codes = << a, b >>, for the comparator c of the list.  A rasterizer
\* is made for transformCode of its markup, or taken from the cache where it
\* stands under that markup; parse throws in _transformCode for a markup it
\* refuses.
Rasterizers(c, codes) ==
    IF codes = <<>> \/ ~Transformable(codes[1]) THEN <<>>
    ELSE << transformCode(c, codes[1]) >> \o Rasterizers(c, Tail(codes))

\* line 715
Same1x(score1x) == score1x <= 0
\* a threshold of 2 ** 2, to compare with AreaDefect
AreaDefectAtFour(score1x, score2x) == score2x >= 4 * score1x
\* lines 730 and 731: defectScore2x / defectScore1x >= 2 ** 1.5, in integers
AreaDefect(score1x, score2x) == score2x * score2x >= 8 * score1x * score1x
\* a validation that is strict when the option is off, to compare with Strictness
StrictnessInverted(globalLossless, forceLossless) == ~globalLossless \/ forceLossless
\* a validation that hears the closure only, to compare with Strictness
StrictnessForcedOnly(globalLossless, forceLossless) == forceLossless
\* line 774: the last argument of assertVisuallySame
Strictness(globalLossless, forceLossless) == globalLossless \/ forceLossless
\* a skip that passes nothing, to compare with SkipPast
SkipPastNothing(n) == n
\* line 762
SkipPast(n) == n + 1
\* an acceptance that never looks back, to compare with NewSkipOps
NewSkipOpsWithoutBacktrack(n, b) == n
\* line 778
NewSkipOps(n, b) == IF b.infinite \/ n - b.n < 0 THEN 0 ELSE n - b.n
\* a loop that runs one round longer, to compare with IterationLimit
IterationLimitPlusOne == MaxRestarts + 1
\* the bound of the outer for at line 745
IterationLimit == MaxRestarts
\* a validation without the try block, to compare with AfterCatch
AfterCatchPropagates == "failed"
\* lines 779 to 782: the catch block swallows the exception and the loop goes on
AfterCatch == "loop"
\* a catch block that keeps the candidate, to compare with Rejected
RejectedKeepsCandidate(committed, candidate) == candidate
\* the committed markup behind the catch block
Rejected(committed, candidate) == committed

RECURSIVE NodeAt(_, _)
NodeAt(childNodes, path) ==
    IF Len(path) = 1 THEN childNodes[path[1]]
    ELSE NodeAt(childNodes[path[1]].childNodes, Tail(path))

\* the change can make the serialization longer: gradient inlining writes
\* opacity attributes, CSSOM rewrites the style attribute, and a namespace
\* declaration taken away, unwrapped away or set again as a plain attribute
\* is written again on every element that needs it
Lengthening(o, d) ==
    \/ o.kind \in {"inlineGradient", "removeStyle"}
    \/ o.kind = "removeAttribute" /\ IsNsDecl(o.arg)
    \/ /\ o.kind \in {"unwrap", "xlinkHref"}
       /\ \E k \in Indices(NodeAt(d.childNodes, o.path).attributes) :
              IsNsDecl(NodeAt(d.childNodes, o.path).attributes[k].name)

(***************************************************************************)
(* The pool (PagePool, line 954) and the calls of process (line 1074).     *)
(* options.parallel is a fraction << numerator, denominator >>, with the   *)
(* denominator 0 for NaN and for an option that was not given.  A page is  *)
(* its number in the order of the _createPage calls.                       *)
(***************************************************************************)
MaxCallers == 3
\* cpus().length
CpuCount == 2

NoParallel == << 0, 0 >>
Parallels == {NoParallel, << 0, 1 >>, << 0 - 1, 1 >>, << 1, 2 >>, << 1, 1 >>, << 3, 2 >>, << 3, 1 >>}
Callers == 1..MaxCallers

\* Math.floor(options.parallel) > 0
FloorIsPositive(p) == p[2] # 0 /\ p[1] \div p[2] > 0

\* lines 961 to 971: the constructor of PagePool
MaxPagesOf(p) == IF FloorIsPositive(p) THEN p[1] \div p[2] ELSE CpuCount

NotCalled == [pc |-> "idle", page |-> 0, frees |-> 0]

\* new SvgUnjunk({ parallel: p })
Constructed(p) ==
    /\ parallel = p
    /\ maxPages = MaxPagesOf(p)
    /\ freePages = <<>>
    /\ resolutionQueue = <<>>
    /\ poolSize = 0
    /\ pages = <<>>
    /\ microtasks = <<>>
    /\ callers = [c \in Callers |-> NotCalled]
    /\ issued = <<>>
    /\ handed = <<>>

MaxFiles == 3
MaxInstances == 2
MaxDestroys == 2
Files == 1..MaxFiles
Instances == 1..MaxInstances

NotConstructed == [state |-> "none", destroys |-> 0, thens |-> 0, catches |-> 0, closes |-> 0]

\* no script has started
NoScript ==
    /\ files = [f \in Files |-> "absent"]
    /\ exitCode = 0
    /\ mainPc = "start"
    /\ browsers = [b \in Instances |-> NotConstructed]
    /\ unhandled = 0

\* the page before unjunk is called in it
PageLoaded ==
    /\ pc = "start"
    /\ svgCode = input
    /\ originalAttrs = <<>>
    /\ skipOps = 0
    /\ i = 0
    /\ doc = NoDocument
    /\ ops = <<>>
    /\ opNumber = 0
    /\ op = NoOp
    /\ newSvgCode = NoMarkup
    /\ backtrack = Finite(0)
    /\ strict = FALSE
    /\ comparator = 1
    /\ scale = 1
    /\ defectScore1x = 0
    /\ rasterized = <<>>
    /\ output = NoMarkup
    /\ log = <<>>
    /\ verdict = "none"
    /\ calls = 0
    /\ submitted = 0
    /\ recoveries = 0
    /\ mayGrow = FALSE
    /\ resumedAt = 0
    /\ memo = {}
    /\ run = 1
    /\ first = NoRun
    /\ reordered = FALSE
    /\ trail = <<>>
    /\ console = <<>>

Init ==
    /\ input \in Inputs
    /\ lossless \in BOOLEAN
    /\ PageLoaded
    /\ Constructed(NoParallel)
    /\ NoScript

\* lines 738 to 744
Unjunk ==
    /\ pc = "start"
    /\ originalAttrs' = getAttrs(svgCode)
    /\ skipOps' = 0
    /\ i' = 0
    /\ pc' = "loop"
    /\ UNCHANGED << svgCode, output, log, verdict, calls, submitted, recoveries,
                    mayGrow, resumedAt >>
    /\ UNCHANGED << frame, validation, restart >>

\* line 746: the test that guards console.log('Bailing out') and its break.
\* It stands inside the body of the loop, which line 745 enters with
\* i < 1000 only, so no step of the call takes its branch.
BailOut(n) == n >= IterationLimit

\* line 745: i < 1000 is false, and the loop is left without a word to the
\* console
LoopExit ==
    /\ pc = "loop"
    /\ ~(i < IterationLimit)
    /\ pc' = "finish"
    /\ log' = <<>>
    /\ verdict' = "none"
    /\ UNCHANGED << svgCode, originalAttrs, skipOps, i, output, calls, submitted,
                    recoveries, mayGrow, resumedAt >>
    /\ UNCHANGED << frame, validation, restart >>

\* line 751: parse throws and nothing catches it
ParseError ==
    /\ pc = "loop"
    /\ i < IterationLimit
    /\ ~BailOut(i)
    /\ ~parse(svgCode).ok
    /\ pc' = "failed"
    /\ recoveries' = IF i = 0 /\ run = 1 THEN parse(svgCode).recoveries ELSE recoveries
    /\ log' = <<>>
    /\ verdict' = "none"
    /\ UNCHANGED << svgCode, originalAttrs, skipOps, i, output, calls, submitted,
                    mayGrow, resumedAt >>
    /\ UNCHANGED << frame, validation, restart >>

\* a pass that goes on with the document of the pass before, to compare with
\* Restart
RestartOnWorkingDocument ==
    /\ pc = "loop"
    /\ i < IterationLimit
    /\ ~BailOut(i)
    /\ parse(svgCode).ok
    /\ doc' = IF doc = NoDocument THEN parse(svgCode).doc ELSE doc
    /\ ops' = cleaningOps(parse(svgCode).doc)
    /\ opNumber' = 0
    /\ op' = NoOp
    /\ pc' = "next"
    /\ submitted' = 0
    /\ log' = <<>>
    /\ verdict' = "none"
    /\ recoveries' = IF i = 0 /\ run = 1 THEN parse(svgCode).recoveries ELSE recoveries
    /\ UNCHANGED << svgCode, originalAttrs, skipOps, i, output, calls, mayGrow, resumedAt >>
    /\ UNCHANGED << frame, validation >>

\* lines 751 to 754
Restart ==
    /\ pc = "loop"
    /\ i < IterationLimit
    /\ ~BailOut(i)
    /\ parse(svgCode).ok
    /\ doc' = parse(svgCode).doc
    /\ ops' = cleaningOps(parse(svgCode).doc)
    /\ opNumber' = 0
    /\ op' = NoOp
    /\ pc' = "next"
    /\ submitted' = 0
    /\ log' = <<>>
    /\ verdict' = "none"
    /\ recoveries' = IF i = 0 /\ run = 1 THEN parse(svgCode).recoveries ELSE recoveries
    /\ UNCHANGED << svgCode, originalAttrs, skipOps, i, output, calls, mayGrow, resumedAt >>
    /\ UNCHANGED << frame, validation >>

\* a generator that reports done one candidate early, to compare with Converge
ConvergeBeforeTheEnd ==
    /\ pc = "next"
    /\ opNumber + 1 >= Len(ops)
    /\ pc' = "finish"
    /\ UNCHANGED << svgCode, originalAttrs, skipOps, i, output, log, verdict, calls,
                    submitted, recoveries, mayGrow, resumedAt >>
    /\ UNCHANGED << frame, validation, restart >>

\* lines 755 to 758: the generator is done
Converge ==
    /\ pc = "next"
    /\ opNumber >= Len(ops)
    /\ pc' = "finish"
    /\ UNCHANGED << svgCode, originalAttrs, skipOps, i, output, log, verdict, calls,
                    submitted, recoveries, mayGrow, resumedAt >>
    /\ UNCHANGED << frame, validation, restart >>

\* lines 759 to 761
SkipOp ==
    /\ pc = "next"
    /\ opNumber < Len(ops)
    /\ opNumber < skipOps
    /\ opNumber' = opNumber + 1
    /\ UNCHANGED << pc, svgCode, originalAttrs, skipOps, i, output, log, verdict, calls,
                    submitted, recoveries, mayGrow, resumedAt, doc, ops, op >>
    /\ UNCHANGED << frame, validation >>

\* a candidate without effect that ends the pass, to compare with Unchanged
UnchangedEndsThePass ==
    /\ pc = "next"
    /\ opNumber < Len(ops)
    /\ ~(opNumber < skipOps)
    /\ serialize(ApplyOp(doc, ops[opNumber + 1])) = svgCode
    /\ skipOps' = SkipPast(opNumber)
    /\ op' = ops[opNumber + 1]
    /\ doc' = ApplyOp(doc, ops[opNumber + 1])
    /\ pc' = "loop"
    /\ i' = i + 1
    /\ UNCHANGED << svgCode, originalAttrs, output, log, verdict, calls,
                    submitted, recoveries, mayGrow, resumedAt, ops, opNumber >>
    /\ UNCHANGED << frame, validation >>

\* lines 762 to 770: the closure changed nothing that serialize writes
Unchanged ==
    /\ pc = "next"
    /\ opNumber < Len(ops)
    /\ ~(opNumber < skipOps)
    /\ serialize(ApplyOp(doc, ops[opNumber + 1])) = svgCode
    /\ skipOps' = SkipPast(opNumber)
    /\ op' = ops[opNumber + 1]
    /\ doc' = ApplyOp(doc, ops[opNumber + 1])
    /\ opNumber' = opNumber + 1
    /\ UNCHANGED << pc, svgCode, originalAttrs, i, output, log, verdict, calls,
                    submitted, recoveries, mayGrow, resumedAt, ops >>
    /\ UNCHANGED << frame, validation >>

\* lines 762 to 774, up to the first await of assertVisuallySame
Submit ==
    /\ pc = "next"
    /\ opNumber < Len(ops)
    /\ ~(opNumber < skipOps)
    /\ serialize(ApplyOp(doc, ops[opNumber + 1])) # svgCode
    /\ skipOps' = SkipPast(opNumber)
    /\ op' = ops[opNumber + 1]
    /\ doc' = ApplyOp(doc, ops[opNumber + 1])
    /\ newSvgCode' = serialize(ApplyOp(doc, ops[opNumber + 1]))
    /\ backtrack' = OpBacktrack(ops[opNumber + 1])
    /\ strict' = Strictness(lossless, OpForceLossless(ops[opNumber + 1]))
    /\ comparator' = 1
    /\ scale' = 1
    /\ defectScore1x' = 0
    /\ rasterized' = Rasterizers(1, << serialize(ApplyOp(doc, ops[opNumber + 1])), svgCode >>)
    /\ submitted' = submitted + 1
    /\ log' = <<>>
    /\ pc' = "compare"
    /\ UNCHANGED << svgCode, originalAttrs, i, output, verdict, calls, recoveries,
                    mayGrow, resumedAt, ops, opNumber >>
    /\ UNCHANGED frame

(***************************************************************************)
(* assertVisuallySame (line 711): what follows the answer r of the compare *)
(* call awaited.                                                           *)
(***************************************************************************)
Logged(r) ==
    /\ log' = Append(log, [comparator |-> comparators[comparator], scale |-> scale,
                           threw |-> r.threw, score |-> r.score])
    /\ calls' = calls + 1

\* the exception reaches the catch block of line 779; break leads to i++
Reject ==
    /\ svgCode' = Rejected(svgCode, newSvgCode)
    /\ verdict' = "rejected"
    /\ i' = i + 1
    /\ pc' = AfterCatch
    /\ trail' = Append(trail, [opNumber |-> opNumber, accepted |-> FALSE, ratio |-> FALSE])
    /\ UNCHANGED << originalAttrs, skipOps, output, submitted, recoveries, mayGrow,
                    resumedAt, call, reordered, console, validation, restart >>

\* lines 777 and 778, then break and i++
Accept ==
    /\ svgCode' = newSvgCode
    /\ skipOps' = NewSkipOps(opNumber, backtrack)
    /\ verdict' = "accepted"
    /\ i' = i + 1
    /\ pc' = "loop"
    /\ mayGrow' = (mayGrow \/ Lengthening(op, parse(svgCode).doc))
    /\ resumedAt' = NewSkipOps(opNumber, backtrack)
    /\ trail' = Append(trail, [opNumber |-> opNumber, accepted |-> TRUE,
                                ratio |-> \E k \in DOMAIN log' : log'[k].scale = 2])
    /\ UNCHANGED << originalAttrs, output, submitted, recoveries, call, reordered,
                    console, validation, restart >>

\* continue at line 717, or the end of the loop body at line 734
NextComparator ==
    IF comparator = Len(comparators)
    THEN Accept
    ELSE /\ comparator' = comparator + 1
         /\ scale' = 1
         /\ rasterized' = Rasterizers(comparator + 1, << newSvgCode, svgCode >>)
         /\ UNCHANGED << pc, svgCode, originalAttrs, skipOps, i, output, verdict, submitted,
                         recoveries, mayGrow, resumedAt, call, reordered, journal, restart,
                         newSvgCode, backtrack, strict, defectScore1x >>

\* compare throws: a markup does not load, or the images differ in size
Throws(r) ==
    /\ pc = "compare"
    /\ r.threw
    /\ Logged(r)
    /\ Reject

\* line 715
Same(r) ==
    /\ pc = "compare" /\ scale = 1
    /\ Transformable(newSvgCode) /\ Transformable(svgCode)
    /\ ~r.threw /\ Same1x(r.score)
    /\ Logged(r)
    /\ NextComparator

\* lines 719 to 721
NotLossless(r) ==
    /\ pc = "compare" /\ scale = 1
    /\ Transformable(newSvgCode) /\ Transformable(svgCode)
    /\ ~r.threw /\ ~Same1x(r.score)
    /\ strict
    /\ Logged(r)
    /\ Reject

\* line 723: the second render is asked for
Differs(r) ==
    /\ pc = "compare" /\ scale = 1
    /\ Transformable(newSvgCode) /\ Transformable(svgCode)
    /\ ~r.threw /\ ~Same1x(r.score)
    /\ ~strict
    /\ Logged(r)
    /\ scale' = 2
    /\ defectScore1x' = r.score
    /\ UNCHANGED << pc, svgCode, originalAttrs, skipOps, i, output, verdict, submitted,
                    recoveries, mayGrow, resumedAt, call, reordered, journal, restart,
                    newSvgCode, backtrack, strict, comparator, rasterized >>

\* lines 730 to 733
Area(r) ==
    /\ pc = "compare" /\ scale = 2
    /\ ~r.threw /\ AreaDefect(defectScore1x, r.score)
    /\ Logged(r)
    /\ Reject

Linear(r) ==
    /\ pc = "compare" /\ scale = 2
    /\ ~r.threw /\ ~AreaDefect(defectScore1x, r.score)
    /\ Logged(r)
    /\ NextComparator

(***************************************************************************)
(* The compare calls with an oracle that is free in every answer           *)
(***************************************************************************)
CompareThrows == Throws(Thrown) /\ UNCHANGED memo
Compare1xSame == \E r \in OracleResults(1) : Same(r) /\ UNCHANGED memo
Compare1xNotLossless == \E r \in OracleResults(1) : NotLossless(r) /\ UNCHANGED memo
Compare1xDiffers == \E r \in OracleResults(1) : Differs(r) /\ UNCHANGED memo
Compare2xAreaDefect == \E r \in OracleResults(2) : Area(r) /\ UNCHANGED memo
Compare2xLinearDefect == \E r \in OracleResults(2) : Linear(r) /\ UNCHANGED memo

\* lines 788 and 789; fixAttrOrder writes both attribute lists to the
\* console at line 827
Finish ==
    /\ pc = "finish"
    /\ svgCode' = fixAttrOrder(svgCode, originalAttrs)
    /\ output' = fixAttrOrder(svgCode, originalAttrs)
    /\ reordered' = (fixAttrOrder(svgCode, originalAttrs) # svgCode)
    /\ console' = Append(console, << getAttrs(svgCode), originalAttrs >>)
    /\ pc' = "done"
    /\ UNCHANGED << originalAttrs, skipOps, i, log, verdict, calls, submitted, recoveries,
                    mayGrow, resumedAt, call, memo, trail, validation, restart >>

Next ==
    \/ Unjunk
    \/ LoopExit
    \/ ParseError
    \/ Restart
    \/ Converge
    \/ SkipOp
    \/ Unchanged
    \/ Submit
    \/ CompareThrows
    \/ Compare1xSame
    \/ Compare1xNotLossless
    \/ Compare1xDiffers
    \/ Compare2xAreaDefect
    \/ Compare2xLinearDefect
    \/ Finish

Spec == Init /\ [][Next]_vars

(***************************************************************************)
(* A deterministic oracle, and a second call on the output of the first.   *)
(* The oracle renders each markup to one image whatever the comparator:    *)
(* two markups give the same image, score 0 at both scales, or different   *)
(* images whose defect grows with the area.                                *)
(***************************************************************************)
\* an oracle that does not remember its answers, to compare with Answer
AnswerFreely(same) == memo' = memo \cup {[a |-> newSvgCode, b |-> svgCode, same |-> same]}

Answer(same) ==
    /\ \A m \in memo : (m.a = newSvgCode /\ m.b = svgCode) => m.same = same
    /\ memo' = memo \cup {[a |-> newSvgCode, b |-> svgCode, same |-> same]}

Render1xSame == Answer(TRUE) /\ Same(Score(0))
Render1xNotLossless == Answer(FALSE) /\ NotLossless(Score(MaxScore1x))
Render1xDiffers == Answer(FALSE) /\ Differs(Score(MaxScore1x))
Render2xAreaDefect == Answer(FALSE) /\ Area(Score(MaxScore2x))

\* the caller hands the output to minimize again
SecondRun ==
    /\ pc = "done"
    /\ run = 1
    /\ run' = 2
    /\ first' = [output |-> output, converged |-> i < IterationLimit,
                 resumedAt |-> resumedAt, reordered |-> reordered,
                 lossless |-> lossless, trail |-> trail]
    /\ svgCode' = output
    /\ pc' = "start"
    /\ output' = NoMarkup
    /\ log' = <<>>
    /\ verdict' = "none"
    /\ mayGrow' = FALSE
    /\ resumedAt' = 0
    /\ reordered' = FALSE
    /\ trail' = <<>>
    /\ console' = <<>>
    /\ UNCHANGED << input, lossless, memo, originalAttrs, skipOps, i, calls, submitted,
                    recoveries, validation, restart, host, script >>

NextDeterministic ==
    \/ Unjunk
    \/ LoopExit
    \/ ParseError
    \/ Restart
    \/ Converge
    \/ SkipOp
    \/ Unchanged
    \/ Submit
    \/ Render1xSame
    \/ Render1xNotLossless
    \/ Render1xDiffers
    \/ Render2xAreaDefect
    \/ Finish
    \/ SecondRun

DeterministicSpec == Init /\ [][NextDeterministic]_vars

(***************************************************************************)
(* Two calls on the same argument, as runTestCase of scripts/test.ts makes *)
(* them, with an oracle that is a function of its arguments: what compare  *)
(* gave for a scale and two markups it gives again.  Both comparators see  *)
(* the same images, and a score is 0, the largest 1x score (at scale 2 a   *)
(* linear defect) or the largest 2x score (an area defect).                *)
(***************************************************************************)
\* an oracle that is free in every answer, to compare with Fixed
FixedFreely(r) ==
    memo' = memo \cup {[scale |-> scale, a |-> newSvgCode, b |-> svgCode, r |-> r]}

Fixed(r) ==
    /\ \A m \in memo :
          (m.scale = scale /\ m.a = newSvgCode /\ m.b = svgCode) => m.r = r
    /\ memo' = memo \cup {[scale |-> scale, a |-> newSvgCode, b |-> svgCode, r |-> r]}

FixedThrows == Fixed(Thrown) /\ Throws(Thrown)
Fixed1xSame == Fixed(Score(0)) /\ Same(Score(0))
Fixed1xNotLossless == Fixed(Score(MaxScore1x)) /\ NotLossless(Score(MaxScore1x))
Fixed1xDiffers == Fixed(Score(MaxScore1x)) /\ Differs(Score(MaxScore1x))
Fixed2xAreaDefect == Fixed(Score(MaxScore2x)) /\ Area(Score(MaxScore2x))
Fixed2xLinearDefect == Fixed(Score(MaxScore1x)) /\ Linear(Score(MaxScore1x))

\* scripts/test.ts lines 109 to 118: the next pass of the loop over the
\* options calls process on the same input
RunAgain ==
    /\ pc = "done"
    /\ run = 1
    /\ run' = 2
    /\ first' = [output |-> output, converged |-> i < IterationLimit,
                 resumedAt |-> resumedAt, reordered |-> reordered,
                 lossless |-> lossless, trail |-> trail]
    /\ \E l \in BOOLEAN : lossless' = l
    /\ svgCode' = input
    /\ pc' = "start"
    /\ output' = NoMarkup
    /\ log' = <<>>
    /\ verdict' = "none"
    /\ mayGrow' = FALSE
    /\ resumedAt' = 0
    /\ reordered' = FALSE
    /\ trail' = <<>>
    /\ console' = <<>>
    /\ UNCHANGED << input, memo, originalAttrs, skipOps, i, calls, submitted,
                    recoveries, validation, restart, host, script >>

NextTwice ==
    \/ Unjunk
    \/ LoopExit
    \/ ParseError
    \/ Restart
    \/ Converge
    \/ SkipOp
    \/ Unchanged
    \/ Submit
    \/ FixedThrows
    \/ Fixed1xSame
    \/ Fixed1xNotLossless
    \/ Fixed1xDiffers
    \/ Fixed2xAreaDefect
    \/ Fixed2xLinearDefect
    \/ Finish
    \/ RunAgain

\* the inputs of the two calls: those of Inputs whose candidates are few
\* enough for every pair of calls to be followed
TwiceInputs ==
    Inputs \ {InputGradient, InputXlinkTwice, InputXmlnsLike, InputHrefTwice, InputRootColor,
              InputRootPaint}

TwiceInit == Init /\ input \in TwiceInputs

TwiceSpec == TwiceInit /\ [][NextTwice]_vars

(***************************************************************************)
(* The pool at work: calls of process from outside, the pages that         *)
(* _createPage delivers, and the microtasks that resume the calls.  What   *)
(* page.evaluate does in the page is left open: it returns or it throws.   *)
(***************************************************************************)
\* the page variables, which the calls of this part leave alone
inPage ==
    << input, lossless, pc, svgCode, originalAttrs, skipOps, i, doc, ops, opNumber, op,
       newSvgCode, backtrack, strict, comparator, scale, defectScore1x, rasterized, output,
       log, verdict, calls, submitted, recoveries, mayGrow, resumedAt, memo, run, first,
       reordered, trail, console >>

Min(a, b) == IF a < b THEN a ELSE b

\* a splice that takes from the end, to compare with Splice0
SpliceEnd(s, n) ==
    [taken |-> [k \in 1..n |-> s[Len(s) + 1 - k]], left |-> SubSeq(s, 1, Len(s) - n)]

\* Array.prototype.splice(0, n): what it returns and what it leaves
Splice0(s, n) == [taken |-> SubSeq(s, 1, n), left |-> SubSeq(s, n + 1, Len(s))]

\* a pool that may create one page more, to compare with MayCreate
MayCreateOneMore(size, max) == size <= max

\* line 980
MayCreate(size, max) == size < max

\* a free that pushes the page and leaves the queue alone, to compare with Free
FreeWithoutResolve(page) ==
    [freePages |-> Append(freePages, page),
     resolutionQueue |-> resolutionQueue,
     resolved |-> <<>>]

\* lines 987 to 990 and 1003 to 1013: free(page), with the pool and the
\* queue as they are before it
Free(page) ==
    LET pushed == Append(freePages, page)
        canResolve == Min(Len(resolutionQueue), Len(pushed))
        pool == Splice0(pushed, canResolve)
        resolvers == Splice0(resolutionQueue, canResolve)
    IN  [freePages |-> pool.left,
         resolutionQueue |-> resolvers.left,
         resolved |-> [k \in 1..canResolve |->
                          [caller |-> resolvers.taken[k], page |-> pool.taken[k]]]]

\* the callers whose promise a free call resolves get their page
Resolve(cs, resolved) ==
    [c \in Callers |->
        IF \E k \in DOMAIN resolved : resolved[k].caller = c
        THEN [cs[c] EXCEPT !.pc = "resolved",
                           !.page = resolved[CHOOSE k \in DOMAIN resolved :
                                                 resolved[k].caller = c].page]
        ELSE cs[c]]

Callees(resolved) == [k \in DOMAIN resolved |-> resolved[k].caller]

\* lines 1074 to 1086 and 973 to 985: process up to its await of alloc()
Alloc(c) ==
    /\ callers[c].pc = "idle"
    /\ issued' = Append(issued, c)
    /\ IF Len(freePages) > 0
       THEN /\ freePages' = SubSeq(freePages, 1, Len(freePages) - 1)
            /\ callers' = [callers EXCEPT ![c] = [pc |-> "resolved",
                                                   page |-> freePages[Len(freePages)],
                                                   frees |-> 0]]
            /\ microtasks' = Append(microtasks, c)
            /\ handed' = Append(handed, c)
            /\ UNCHANGED << resolutionQueue, poolSize, pages >>
       ELSE /\ resolutionQueue' = Append(resolutionQueue, c)
            /\ callers' = [callers EXCEPT ![c].pc = "waiting"]
            /\ IF MayCreate(poolSize, maxPages)
               THEN /\ pages' = Append(pages, "creating")
                    /\ poolSize' = poolSize + 1
               ELSE UNCHANGED << pages, poolSize >>
            /\ UNCHANGED << freePages, microtasks, handed >>
    /\ UNCHANGED << parallel, maxPages, inPage, script >>

\* line 981: _createPage delivered its page, and the then callback frees it.
\* An alloc call starts at most one _createPage, so that page p is one of
\* 1..MaxCallers.
PageCreated(p) ==
    /\ p \in DOMAIN pages /\ pages[p] = "creating"
    /\ pages' = [pages EXCEPT ![p] = "ready"]
    /\ freePages' = Free(p).freePages
    /\ resolutionQueue' = Free(p).resolutionQueue
    /\ callers' = Resolve(callers, Free(p).resolved)
    /\ microtasks' = microtasks \o Callees(Free(p).resolved)
    /\ handed' = handed \o Callees(Free(p).resolved)
    /\ UNCHANGED << parallel, maxPages, poolSize, issued, inPage, script >>

\* lines 1015 to 1032: the browser does not start, or the page does not
\* load; nothing handles the rejection
PageCreationFails(p) ==
    /\ p \in DOMAIN pages /\ pages[p] = "creating"
    /\ pages' = [pages EXCEPT ![p] = "failed"]
    /\ UNCHANGED << parallel, maxPages, freePages, resolutionQueue, poolSize, microtasks,
                    callers, issued, handed, inPage, script >>

\* lines 1086 to 1088: the call goes on behind its await and enters the try
Resume ==
    /\ microtasks # <<>>
    /\ callers' = [callers EXCEPT ![Head(microtasks)].pc = "evaluating"]
    /\ microtasks' = Tail(microtasks)
    /\ UNCHANGED << parallel, maxPages, freePages, resolutionQueue, poolSize, pages,
                    issued, handed, inPage, script >>

\* the finally block of line 1089, behind an evaluate that ended as outcome
Finally(c, outcome) ==
    /\ freePages' = Free(callers[c].page).freePages
    /\ resolutionQueue' = Free(callers[c].page).resolutionQueue
    /\ callers' = Resolve([callers EXCEPT ![c] = [pc |-> outcome, page |-> 0,
                                                  frees |-> callers[c].frees + 1]],
                          Free(callers[c].page).resolved)
    /\ microtasks' = microtasks \o Callees(Free(callers[c].page).resolved)
    /\ handed' = handed \o Callees(Free(callers[c].page).resolved)
    /\ UNCHANGED << parallel, maxPages, poolSize, pages, issued, inPage, script >>

\* a catch without the free call, to compare with EvaluateThrows
EvaluateThrowsKeepsPage(c) ==
    /\ callers[c].pc = "evaluating"
    /\ callers' = [callers EXCEPT ![c].pc = "threw"]
    /\ UNCHANGED << parallel, maxPages, freePages, resolutionQueue, poolSize, pages,
                    microtasks, issued, handed, inPage, script >>

\* lines 1087 to 1091: page.evaluate resolved
EvaluateReturns(c) ==
    /\ callers[c].pc = "evaluating"
    /\ Finally(c, "returned")

\* lines 1087 to 1091: page.evaluate rejected, and the exception leaves process
EvaluateThrows(c) ==
    /\ callers[c].pc = "evaluating"
    /\ Finally(c, "threw")

PoolInit ==
    /\ input = InputBare
    /\ lossless = FALSE
    /\ PageLoaded
    /\ \E p \in Parallels : Constructed(p)
    /\ NoScript

PoolNext ==
    \/ \E c \in Callers : Alloc(c)
    \/ \E p \in Callers : PageCreated(p)
    \/ \E p \in Callers : PageCreationFails(p)
    \/ Resume
    \/ \E c \in Callers : EvaluateReturns(c)
    \/ \E c \in Callers : EvaluateThrows(c)

PoolSpec == PoolInit /\ [][PoolNext]_vars

(***************************************************************************)
(* The SvgUnjunk instance and its browser (src/src/page/unjunk.ts:961,     *)
(* 992, 1098).  An instance is [state, destroys, thens, catches, closes]:  *)
(* state is "none" before the constructor, then how puppeteer.launch       *)
(* stands ("launching", "launched", "failed"), then "closed" once          *)
(* browser.close() was called; thens and catches count the callbacks that  *)
(* destroy() chained on _browser and that have not run, closes the         *)
(* promises of browser.close() that have not settled.                      *)
(***************************************************************************)
\* lines 968 to 970: the constructor starts the browser
Construct(b) ==
    /\ browsers[b].state = "none"
    /\ browsers' = [browsers EXCEPT ![b].state = "launching"]
    /\ UNCHANGED << inPage, host, files, exitCode, mainPc, unhandled >>

\* puppeteer.launch resolved
Launched(b) ==
    /\ browsers[b].state = "launching"
    /\ browsers' = [browsers EXCEPT ![b].state = "launched"]
    /\ UNCHANGED << inPage, host, files, exitCode, mainPc, unhandled >>

\* puppeteer.launch rejected
LaunchFails(b) ==
    /\ browsers[b].state = "launching"
    /\ browsers' = [browsers EXCEPT ![b].state = "failed"]
    /\ UNCHANGED << inPage, host, files, exitCode, mainPc, unhandled >>

\* lines 1098 to 1100 and 992 to 1001: destroy() chains then and catch on
\* _browser and returns
Destroyed(inst) == [inst EXCEPT !.destroys = @ + 1, !.thens = @ + 1]

Destroy(b) ==
    /\ browsers[b].state # "none"
    /\ browsers[b].destroys < MaxDestroys
    /\ browsers' = [browsers EXCEPT ![b] = Destroyed(@)]
    /\ UNCHANGED << inPage, host, files, exitCode, mainPc, unhandled >>

\* lines 994 to 996: _browser is settled and a then callback is due.  On a
\* browser it calls browser.close() and returns nothing, so the promise of
\* close() is in no chain; on a failed launch the callback is passed over
\* and the rejection goes to the catch.
ReactThen(b) ==
    /\ browsers[b].thens > 0
    /\ browsers[b].state \in {"launched", "closed", "failed"}
    /\ browsers' = [browsers EXCEPT
                       ![b].thens = @ - 1,
                       ![b].catches = IF browsers[b].state = "failed" THEN @ + 1 ELSE @,
                       ![b].closes = IF browsers[b].state = "failed" THEN @ ELSE @ + 1,
                       ![b].state = IF @ = "launched" THEN "closed" ELSE @]
    /\ UNCHANGED << inPage, host, files, exitCode, mainPc, unhandled >>

\* line 995: the promise of browser.close() resolved
CloseResolves(b) ==
    /\ browsers[b].closes > 0
    /\ browsers' = [browsers EXCEPT ![b].closes = @ - 1]
    /\ UNCHANGED << inPage, host, files, exitCode, mainPc, unhandled >>

\* line 995: the promise of browser.close() rejected; it has no handler
CloseRejects(b) ==
    /\ browsers[b].closes > 0
    /\ browsers' = [browsers EXCEPT ![b].closes = @ - 1]
    /\ unhandled' = unhandled + 1
    /\ UNCHANGED << inPage, host, files, exitCode, mainPc >>

\* lines 997 to 999: the catch callback takes the rejection and does nothing
ReactCatch(b) ==
    /\ browsers[b].catches > 0
    /\ browsers' = [browsers EXCEPT ![b].catches = @ - 1]
    /\ UNCHANGED << inPage, host, files, exitCode, mainPc, unhandled >>

DestroyInit ==
    /\ input = InputBare
    /\ lossless = FALSE
    /\ PageLoaded
    /\ Constructed(NoParallel)
    /\ NoScript

DestroyNext ==
    \/ \E b \in Instances : Construct(b)
    \/ \E b \in Instances : Launched(b)
    \/ \E b \in Instances : LaunchFails(b)
    \/ \E b \in Instances : Destroy(b)
    \/ \E b \in Instances : ReactThen(b)
    \/ \E b \in Instances : ReactCatch(b)
    \/ \E b \in Instances : CloseResolves(b)
    \/ \E b \in Instances : CloseRejects(b)

DestroySpec == DestroyInit /\ [][DestroyNext]_vars

(***************************************************************************)
(* The command line tool: main and bulkOverwrite                           *)
(* (src/src/page/unjunk.ts:880, 908).  A file is "absent" (not on the      *)
(* command line), "listed", "unreadable", "processing", "failed" (process  *)
(* threw), "kept" (the result is no smaller), "writing", "written" or      *)
(* "writeFailed".  What process does with a file is the choice between     *)
(* the three ends of "processing".                                         *)
(***************************************************************************)
\* runForFile returned, or was not called
FileDone(f) == files[f] \in {"absent", "unreadable", "failed", "kept", "written"}

\* the command line
Arguments ==
    /\ input = InputBare
    /\ lossless = FALSE
    /\ PageLoaded
    /\ Constructed(NoParallel)
    /\ files \in [Files -> {"absent", "listed"}]
    /\ exitCode = 0
    /\ mainPc = "start"
    /\ browsers = [b \in Instances |-> NotConstructed]
    /\ unhandled = 0

\* lines 909 to 915: no file names, main returns
MainWithoutFiles ==
    /\ mainPc = "start"
    /\ \A f \in Files : files[f] = "absent"
    /\ mainPc' = "returned"
    /\ UNCHANGED << inPage, host, files, exitCode, browsers, unhandled >>

\* lines 916 to 918 and 905: the instance is made and runForFile is started
\* for every file name
MainBulk ==
    /\ mainPc = "start"
    /\ \E f \in Files : files[f] # "absent"
    /\ mainPc' = "bulk"
    /\ browsers' = [browsers EXCEPT ![1].state = "launching"]
    /\ UNCHANGED << inPage, host, files, exitCode, unhandled >>

\* lines 881 to 887: readFile rejected
ReadFails(f) ==
    /\ mainPc = "bulk" /\ files[f] = "listed"
    /\ files' = [files EXCEPT ![f] = "unreadable"]
    /\ exitCode' = 1
    /\ UNCHANGED << inPage, host, mainPc, browsers, unhandled >>

\* lines 881 to 890: the file was read and process is called
Read(f) ==
    /\ mainPc = "bulk" /\ files[f] = "listed"
    /\ files' = [files EXCEPT ![f] = "processing"]
    /\ UNCHANGED << inPage, host, exitCode, mainPc, browsers, unhandled >>

\* lines 891 to 895: process rejected; the catch logs and returns
ProcessThrows(f) ==
    /\ mainPc = "bulk" /\ files[f] = "processing"
    /\ files' = [files EXCEPT ![f] = "failed"]
    /\ UNCHANGED << inPage, host, exitCode, mainPc, browsers, unhandled >>

\* lines 896 to 899: the result is not smaller than the file
NotSmaller(f) ==
    /\ mainPc = "bulk" /\ files[f] = "processing"
    /\ files' = [files EXCEPT ![f] = "kept"]
    /\ UNCHANGED << inPage, host, exitCode, mainPc, browsers, unhandled >>

\* lines 896 to 901: the result is smaller and writeFile is called
Smaller(f) ==
    /\ mainPc = "bulk" /\ files[f] = "processing"
    /\ files' = [files EXCEPT ![f] = "writing"]
    /\ UNCHANGED << inPage, host, exitCode, mainPc, browsers, unhandled >>

\* lines 901 to 902: writeFile resolved
Written(f) ==
    /\ mainPc = "bulk" /\ files[f] = "writing"
    /\ files' = [files EXCEPT ![f] = "written"]
    /\ UNCHANGED << inPage, host, exitCode, mainPc, browsers, unhandled >>

\* lines 901, 905 and 922 to 925: writeFile rejected, so runForFile, the
\* Promise.all of line 905 and main reject, and the catch of main ends the
\* process with status 2, whatever the other files are at
WriteFails(f) ==
    /\ mainPc = "bulk" /\ files[f] = "writing"
    /\ files' = [files EXCEPT ![f] = "writeFailed"]
    /\ exitCode' = 2
    /\ mainPc' = "exited"
    /\ UNCHANGED << inPage, host, browsers, unhandled >>

\* lines 905 and 919: every runForFile returned; main calls destroy and
\* returns, and the process ends with process.exitCode
MainReturns ==
    /\ mainPc = "bulk"
    /\ \A f \in Files : FileDone(f)
    /\ mainPc' = "returned"
    /\ browsers' = [browsers EXCEPT ![1] = Destroyed(@)]
    /\ UNCHANGED << inPage, host, files, exitCode, unhandled >>

CliNext ==
    \/ MainWithoutFiles
    \/ MainBulk
    \/ \E f \in Files : ReadFails(f)
    \/ \E f \in Files : Read(f)
    \/ \E f \in Files : ProcessThrows(f)
    \/ \E f \in Files : NotSmaller(f)
    \/ \E f \in Files : Smaller(f)
    \/ \E f \in Files : Written(f)
    \/ \E f \in Files : WriteFails(f)
    \/ MainReturns

CliSpec == Arguments /\ [][CliNext]_vars

(***************************************************************************)
(* Properties                                                              *)
(***************************************************************************)
ComparatorNames == {comparators[k] : k \in DOMAIN comparators}

\* comparator c is satisfied by the calls recorded in l: its 1x score is at
\* most 0, or the validation is not strict and its 2x score over its 1x
\* score is below 2 ** 1.5
PolicyPasses(l, c, isStrict) ==
    \E k \in DOMAIN l :
        /\ l[k].comparator = c /\ l[k].scale = 1 /\ ~l[k].threw
        /\ \/ l[k].score <= 0
           \/ /\ ~isStrict
              /\ \E j \in DOMAIN l :
                    /\ l[j].comparator = c /\ l[j].scale = 2 /\ ~l[j].threw
                    /\ l[j].score * l[j].score < 8 * l[k].score * l[k].score

\* comparator c saw two identical renders at scale 1
Identical1x(l, c) ==
    \E k \in DOMAIN l : l[k].comparator = c /\ l[k].scale = 1 /\ ~l[k].threw /\ l[k].score <= 0

\* C1: while the search runs, the committed markup changes only in the step
\* that ends a validation both comparators passed, and it becomes the
\* candidate that was compared with the markup it replaces; a step that ends
\* a validation by a rejection or an exception leaves it as it was.
C1_CommittedChangesOnlyOnAcceptance ==
    [][ pc' # "done" =>
          /\ svgCode' # svgCode =>
                /\ pc = "compare"
                /\ svgCode' = newSvgCode
                /\ verdict' = "accepted"
                /\ \A c \in ComparatorNames : PolicyPasses(log', c, strict)
          /\ (pc = "compare" /\ verdict' = "rejected") => svgCode' = svgCode ]_vars

\* C1: a candidate was accepted and is the committed markup
C1_Witness ==
    /\ pc = "loop" /\ verdict = "accepted"
    /\ svgCode = newSvgCode /\ svgCode # input

\* what is left of a call: the stage of the call, the restarts left, the
\* place in the restart, and the candidates left to draw or the compare
\* calls left to make
Measure ==
    << CASE pc = "start" -> 3
         [] pc \in {"loop", "next", "compare"} -> 2
         [] pc = "finish" -> 1
         [] OTHER -> 0,
       MaxRestarts - i,
       CASE pc = "loop" -> 3
         [] pc = "next" -> 2
         [] pc = "compare" -> 1
         [] OTHER -> 0,
       CASE pc = "next" -> Len(ops) - opNumber
         [] pc = "compare" -> 2 * Len(comparators) - Len(log)
         [] OTHER -> 0 >>

\* a comes before b in the lexicographic order
LexLess(a, b) ==
    \E k \in DOMAIN a : a[k] < b[k] /\ \A j \in 1..(k - 1) : a[j] = b[j]

\* C2: the restart counter never passes the iteration bound, no restart
\* submits more than one candidate to the oracle, and every step of a call
\* brings it nearer to its return: a measure of natural numbers that starts
\* below (3, bound, 3, candidates) decreases with each step, so that a call
\* whose compare calls return does return.
C2_ReturnsWithinTheLimit ==
    /\ [](i <= MaxRestarts /\ submitted <= 1 /\ \A k \in DOMAIN Measure : Measure[k] >= 0)
    /\ [][LexLess(Measure', Measure)]_vars

\* C2: the call returned because the bound was reached
C2_Witness == pc = "done" /\ i = MaxRestarts /\ submitted = 1

\* C3: the call fails only in its first parse, before any compare call: an
\* exception of a validation ends that validation as a rejection, and the
\* committed markup parses at every later restart.
C3_FailuresAreRejections ==
    /\ pc = "failed" => (i = 0 /\ calls = 0 /\ verdict = "none")
    /\ (pc = "loop" /\ i > 0) => parse(svgCode).ok

\* C3: a compare call threw and the loop goes on with a markup that parses
C3_Witness ==
    /\ pc = "loop" /\ verdict = "rejected" /\ i < IterationLimit
    /\ log # <<>> /\ log[Len(log)].threw
    /\ parse(svgCode).ok

\* the namespace the root element of well-formed markup declares for itself
RootNamespace(markup) ==
    BoundNs(SelectSeq(markup, LAMBDA n : n.type = "element")[1].attrs, "", NULL_NS)
RootName(markup) == SelectSeq(markup, LAMBDA n : n.type = "element")[1].name
\* the first parse of the call is over
FirstParseOver == pc # "start" /\ ~(pc = "loop" /\ i = 0 /\ run = 1)

\* C4: the call fails, with no compare call and no output, exactly when the
\* argument is not well-formed or its root is not an element named svg in
\* the SVG namespace, where a root in no namespace counts as SVG; parse
\* repairs the namespace exactly once when the root is in no namespace and
\* never otherwise.
C4_ParseErrors ==
    FirstParseOver =>
        /\ pc = "failed" <=>
              ~(/\ WellFormed(input)
                /\ RootName(input) = "svg"
                /\ RootNamespace(input) \in {SVG_NS, NULL_NS})
        /\ pc = "failed" => (calls = 0 /\ output = NoMarkup)
        /\ recoveries = IF WellFormed(input) /\ RootNamespace(input) = NULL_NS THEN 1 ELSE 0

\* C4: a root in no namespace that is not named svg: one repair, then the failure
C4_Witness == pc = "failed" /\ recoveries = 1 /\ calls = 0

\* C5: a validation ends accepted exactly when each of the two comparators
\* is satisfied: its 1x score is at most 0, or the validation is not strict
\* and its 2x score over its 1x score is below 2 ** 1.5.
C5_AcceptedIffBothPoliciesPass ==
    verdict # "none" =>
        (verdict = "accepted" <=> \A c \in ComparatorNames : PolicyPasses(log, c, strict))

\* C5: accepted with a positive 1x score, on the ratio of the two renders
C5_Witness ==
    /\ verdict = "accepted"
    /\ \E k \in DOMAIN log : log[k].scale = 2 /\ log[k].score > 0

\* C6: with lossless on no compare call asks for scale 2, and a candidate
\* is committed only when both comparators gave a 1x score of at most 0.
C6_LosslessCommitsIdenticalRenders ==
    lossless =>
        /\ scale = 1
        /\ \A k \in DOMAIN log : log[k].scale = 1
        /\ verdict = "accepted" => \A c \in ComparatorNames : Identical1x(log, c)

\* C6: a candidate was committed with lossless on
C6_Witness == lossless /\ verdict = "accepted" /\ svgCode # input /\ Len(log) = 2

\* the candidate removes an attribute or a style property named stroke-*
StrokeCandidate(o) ==
    /\ o.kind \in {"removeAttribute", "removeStyle"}
    /\ StartsWith(o.arg, "stroke-")

\* C7: a candidate that removes a stroke-* attribute or style property is
\* validated strictly whatever the lossless option is: no 2x call, committed
\* only on identical 1x renders; every other candidate, gradient inlining
\* included, is validated with the strictness of the option.
C7_StrokeRemovalIsStrict ==
    (pc = "compare" \/ verdict # "none") =>
        /\ StrokeCandidate(op) =>
              /\ strict
              /\ \A k \in DOMAIN log : log[k].scale = 1
              /\ verdict = "accepted" => \A c \in ComparatorNames : Identical1x(log, c)
        /\ ~StrokeCandidate(op) => (strict = lossless)

\* C7: lossless is off and the removal of a stroke-* style property is
\* rejected for a positive 1x score
C7_Witness ==
    /\ ~lossless /\ op.kind = "removeStyle" /\ StrokeCandidate(op)
    /\ verdict = "rejected"
    /\ log # <<>> /\ ~log[Len(log)].threw /\ log[Len(log)].score > 0

\* the candidate deletes or unwraps the root element of d, or removes its xmlns
TouchesRoot(o, d) ==
    /\ o.path = << DocumentElementIndex(d) >>
    /\ \/ o.kind \in {"removeChild", "unwrap"}
       \/ o.kind = "removeAttribute" /\ o.arg = "xmlns"

RoundTripNoLonger(markup) ==
    parse(markup).ok /\ byteLength(serialize(parse(markup).doc)) <= byteLength(markup)

\* C9 as stated: the output is never longer than the input
C9_OutputNeverLonger == pc = "done" => byteLength(output) <= byteLength(input)

\* C9: the output is not longer than the input when parsing and serializing
\* the input does not lengthen it (its root declares xmlns) and no committed
\* candidate inlined a gradient, removed a style property, or removed,
\* rewrote or unwrapped an element's namespace declaration.
C9_OutputNoLongerWithoutRewrites ==
    (pc = "done" /\ run = 1 /\ RoundTripNoLonger(input) /\ ~mayGrow) =>
        byteLength(output) <= byteLength(input)

\* C9: such a call returned a shorter markup
C9_Witness ==
    /\ pc = "done" /\ run = 1 /\ RoundTripNoLonger(input) /\ ~mayGrow
    /\ byteLength(output) < byteLength(input)

\* C10 as stated: with a deterministic oracle, the call on the output of a
\* call returns that output
C10_SecondRunChangesNothing == (run = 2 /\ pc = "done") => output = first.output

\* C10: with a deterministic oracle, the call on the output of a call returns
\* that output when the first call ended because its generator was done,
\* its last acceptance, if any, set skipOps to 0, and the attribute order
\* pass left its committed markup as it was.
C10_SecondRunAfterFullPass ==
    (run = 2 /\ first.converged /\ first.resumedAt = 0 /\ ~first.reordered) =>
        /\ pc # "failed"
        /\ pc = "done" => output = first.output

\* C10: such a second call returned, after a first call that changed its input
C10_Witness ==
    /\ run = 2 /\ pc = "done"
    /\ first.converged /\ first.resumedAt = 0 /\ ~first.reordered
    /\ first.output # input /\ output = first.output /\ calls > 1

\* C13: a call converges exactly when a pass reaches the end of the
\* generator with no candidate at or above the skip point having changed the
\* serialization: while a pass draws candidates no candidate was submitted
\* and the working document still serializes to the committed markup; the
\* step to the return leaves the pass only at the end of the generator, a
\* pass at the end of the generator can only return, and from there to the
\* return no compare call is made and the committed markup is what
\* fixAttrOrder is given.
C13_ConvergesAtTheEndOfThePass ==
    /\ [](pc = "next" => (submitted = 0 /\ (op # NoOp => serialize(doc) = svgCode)))
    /\ [][ /\ (pc = "next" /\ pc' = "finish") =>
                (opNumber = Len(ops) /\ svgCode' = svgCode /\ calls' = calls)
           /\ (pc = "next" /\ opNumber >= Len(ops)) => pc' = "finish"
           /\ (pc' = "finish" /\ i < IterationLimit) => pc = "next"
           /\ pc = "finish" =>
                (calls' = calls /\ output' = fixAttrOrder(svgCode, originalAttrs)) ]_vars

\* C13: the call returned by convergence after an acceptance, and the last
\* pass applied a candidate that changed nothing
C13_Witness ==
    /\ pc = "done" /\ i < IterationLimit /\ op # NoOp
    /\ \E k \in DOMAIN trail : trail[k].accepted

AttrOrderKept(out, before, orig, originalsFirst) ==
    /\ Len(out) = Len(before)
    /\ \A k \in Indices(before) : \E j \in Indices(out) : out[j] = before[k]
    /\ \A a \in Indices(out) : \A b \in Indices(out) :
          a < b =>
             LET aOld == LastIndexOf(orig, out[a].name) >= 0
                 bOld == LastIndexOf(orig, out[b].name) >= 0
             IN  /\ (aOld /\ bOld) =>
                        LastIndexOf(orig, out[a].name) <= LastIndexOf(orig, out[b].name)
                 /\ (~aOld /\ ~bOld) =>
                        LastIndexOf(before, out[a].name) <= LastIndexOf(before, out[b].name)
                 /\ (aOld /\ ~bOld) => originalsFirst
                 /\ (~aOld /\ bOld) => ~originalsFirst

C17_OutputDeclaresSvgNamespace ==
    (pc = "done" /\ run = 1 /\ RootNamespace(input) # SVG_NS) => RootNamespace(output) = SVG_NS

\* console.log('Bailing out') was called in this call
BailOutLogged == \E k \in DOMAIN console : console[k] = << "Bailing out" >>

\* C14 as the specification states it: a call that reaches the iteration
\* bound before its generator is done writes the bail-out notice to the
\* console and returns the committed markup.
C14_BailOutIsLogged ==
    (pc = "done" /\ i = IterationLimit) => (BailOutLogged /\ output = svgCode)

\* s is the beginning of t
IsPrefix(s, t) == Len(s) <= Len(t) /\ s = SubSeq(t, 1, Len(s))

\* the validations of the call made with lossless on, and of the other one,
\* when the two calls differ in the option
TightTrail == IF lossless THEN trail ELSE first.trail
LooseTrail == IF lossless THEN first.trail ELSE trail
TightOutput == IF lossless THEN output ELSE first.output
LooseOutput == IF lossless THEN first.output ELSE output

\* C11 as the specification states it: with the same deterministic oracle,
\* the output of the call with lossless on is no smaller than the output of
\* the call on the same input with lossless off.
C11_LosslessOutputNoSmaller ==
    (run = 2 /\ pc = "done" /\ lossless # first.lossless) =>
        byteLength(TightOutput) >= byteLength(LooseOutput)

\* C11: with the same deterministic oracle, the call with lossless on and
\* the call on the same input with lossless off validate the same candidates
\* with the same verdicts and return the same markup, as long as the call
\* with lossless off accepts no candidate on a 2x render, that is, with a
\* positive 1x score.
C11_LosslessDiffersByRatioOnly ==
    (run = 2 /\ lossless # first.lossless /\ \A k \in DOMAIN LooseTrail : ~LooseTrail[k].ratio) =>
        /\ pc # "failed"
        /\ IsPrefix(trail, first.trail)
        /\ pc = "done" => (trail = first.trail /\ output = first.output)

\* C11: two such calls returned a markup shorter than the input, after a
\* candidate that both rejected: the one with lossless on for its 1x score,
\* the other for its 2x score
C11_Witness ==
    /\ run = 2 /\ pc = "done" /\ lossless # first.lossless
    /\ \A k \in DOMAIN LooseTrail : ~LooseTrail[k].ratio
    /\ \E k \in DOMAIN trail : trail[k].accepted
    /\ \E k \in DOMAIN trail : ~trail[k].accepted
    /\ \E m \in memo : m.scale = 2 /\ ~m.r.threw
    /\ output = first.output /\ byteLength(output) < byteLength(input)

Held(c) == callers[c].pc \in {"resolved", "evaluating"}
\* the call is over
Settled(c) == callers[c].pc \in {"returned", "threw"}

\* C18: the pool hands pages to the callers in the order of their alloc
\* calls: the callers handed a page are a beginning of the callers in call
\* order, the queue holds the others in call order, no page is free while a
\* caller waits, and the calls resume in the order in which they were handed
\* their page.
C18_ServedInArrivalOrder ==
    /\ IsPrefix(handed, issued)
    /\ resolutionQueue = SubSeq(issued, Len(handed) + 1, Len(issued))
    /\ ~(Len(freePages) > 0 /\ Len(resolutionQueue) > 0)
    /\ microtasks = SubSeq(handed, Len(handed) - Len(microtasks) + 1, Len(handed))

\* C18: with one page, the second caller got the page the first one freed
\* while the third one waits
C18_Witness ==
    /\ poolSize = 1 /\ maxPages = 1
    /\ Len(handed) = 2 /\ Len(resolutionQueue) = 1
    /\ Settled(handed[1]) /\ Held(handed[2])

\* C19: a page is held by at most one call, a held page is a page that
\* _createPage delivered and is not in the free list, no page is twice in
\* the free list, and the pages created are at most _maxPages, which is
\* Math.floor(parallel) when that is positive and the number of CPUs
\* otherwise.
C19_SessionsExclusiveAndBounded ==
    /\ \A c \in Callers : \A d \in Callers :
          (Held(c) /\ Held(d) /\ c # d) => callers[c].page # callers[d].page
    /\ \A c \in Callers :
          Held(c) =>
             /\ callers[c].page \in DOMAIN pages
             /\ pages[callers[c].page] = "ready"
             /\ \A k \in DOMAIN freePages : freePages[k] # callers[c].page
    /\ \A j \in DOMAIN freePages : \A k \in DOMAIN freePages :
          (freePages[j] = freePages[k]) => j = k
    /\ \A k \in DOMAIN freePages : pages[freePages[k]] = "ready"
    /\ Len(pages) = poolSize
    /\ poolSize <= maxPages
    /\ maxPages = (IF FloorIsPositive(parallel) THEN parallel[1] \div parallel[2] ELSE CpuCount)

\* C19: with parallel = 3/2 the one page of the pool is held while a caller
\* waits for it
C19_Witness ==
    /\ parallel = << 3, 2 >> /\ poolSize = 1
    /\ \E c \in Callers : Held(c) /\ callers[c].pc = "evaluating"
    /\ Len(resolutionQueue) > 0

\* C20: a call of process has called free once when it is over, by a return
\* or by an exception, and not before; it keeps no page; and every page that
\* _createPage delivered is in the free list or held by a call that is not
\* over.
C20_ReleasedExactlyOnce ==
    /\ \A c \in Callers : callers[c].frees = (IF Settled(c) THEN 1 ELSE 0)
    /\ \A c \in Callers : Settled(c) => callers[c].page = 0
    /\ Cardinality({p \in DOMAIN pages : pages[p] = "ready"})
          = Len(freePages) + Cardinality({c \in Callers : Held(c)})

\* C20: the in-page call of a caller threw, and the page it held is held by
\* the next caller
C20_Witness ==
    /\ poolSize = 1
    /\ \E c \in Callers : callers[c].pc = "threw" /\ callers[c].frees = 1
    /\ \E d \in Callers : callers[d].pc = "evaluating" /\ callers[d].page = 1

\* the step applies the candidate at opNumber: lines 762 to 766
Applies == pc = "next" /\ opNumber < Len(ops) /\ ~(opNumber < skipOps)

\* C23: the acceptance of the candidate at index k sets skipOps to k for a
\* removal of a child, an attribute, a class or a style property and for the
\* xlink:href rewrite, to max(k - 1, 0) for an unwrap and to 0 for a gradient
\* inlining; the next restart starts its generator at index 0 with that
\* skipOps, leaves the candidates below it alone and applies the one at it.
C23_AcceptanceSetsTheSkip ==
    [][ /\ (pc = "compare" /\ verdict' = "accepted") =>
              /\ pc' = "loop"
              /\ skipOps' = (CASE op.kind = "inlineGradient" -> 0
                               [] op.kind = "unwrap" ->
                                     (IF opNumber - 1 > 0 THEN opNumber - 1 ELSE 0)
                               [] OTHER -> opNumber)
        /\ (pc = "loop" /\ pc' = "next") => (skipOps' = skipOps /\ opNumber' = 0)
        /\ (pc = "next" /\ opNumber < skipOps /\ opNumber < Len(ops)) =>
              (doc' = doc /\ skipOps' = skipOps /\ opNumber' = opNumber + 1 /\ pc' = "next")
        /\ Applies => (doc' = ApplyOp(doc, ops[opNumber + 1]) /\ op' = ops[opNumber + 1]) ]_vars

\* C23: an unwrap at an index above 0 was accepted and skipOps is one below
\* that index
C23_Witness ==
    /\ pc = "loop" /\ verdict = "accepted"
    /\ op.kind = "unwrap" /\ opNumber > 0 /\ skipOps = opNumber - 1

\* the validations of the call since its last acceptance
SinceAcceptance ==
    LET last == IF \E k \in DOMAIN trail : trail[k].accepted
                THEN CHOOSE k \in DOMAIN trail :
                         trail[k].accepted /\ \A j \in (k + 1)..Len(trail) : ~trail[j].accepted
                ELSE 0
    IN  SubSeq(trail, last + 1, Len(trail))

\* C24: the step that applies the candidate at an index sets skipOps to that
\* index plus 1, which is more than it was; skipOps gets smaller only in the
\* step that accepts a candidate; so the candidates rejected since the last
\* acceptance have increasing indices, all below skipOps, and are not applied
\* again.
C24_PassedIndexNotRetried ==
    /\ [](\A k \in DOMAIN SinceAcceptance :
             /\ SinceAcceptance[k].opNumber < skipOps
             /\ \A j \in DOMAIN SinceAcceptance :
                   j < k => SinceAcceptance[j].opNumber < SinceAcceptance[k].opNumber)
    /\ [][ /\ Applies => (skipOps' = opNumber + 1 /\ skipOps' > skipOps)
           /\ skipOps' < skipOps => (pc = "compare" /\ verdict' = "accepted")
           /\ (pc = "compare" /\ verdict' = "rejected") => skipOps' = skipOps ]_vars

\* C24: three candidates were rejected one after the other, behind an
\* acceptance
C24_Witness ==
    /\ pc = "loop" /\ verdict = "rejected"
    /\ Len(SinceAcceptance) >= 3 /\ Len(SinceAcceptance) < Len(trail)

\* C25: when the applied candidate leaves the serialization of the working
\* document equal to the committed markup, the step makes no compare call,
\* validates nothing and starts no pass: the same generator goes on to its
\* next candidate, on the working document as the candidate left it.
C25_NoEffectGoesOn ==
    [][ (Applies /\ serialize(ApplyOp(doc, ops[opNumber + 1])) = svgCode) =>
            /\ calls' = calls /\ submitted' = submitted /\ trail' = trail
            /\ i' = i /\ pc' = "next" /\ svgCode' = svgCode
            /\ ops' = ops /\ opNumber' = opNumber + 1
            /\ doc' = ApplyOp(doc, ops[opNumber + 1]) ]_vars

\* C25: a candidate was applied without effect on the serialization, though
\* it changed the working document, and the generator has more to yield
C25_Witness ==
    /\ pc = "next" /\ op # NoOp /\ opNumber < Len(ops)
    /\ doc # parse(svgCode).doc

\* skipOps at the start of the pass: 0 at the first pass, the rejected index
\* plus 1 after a rejection, what the acceptance left after an acceptance
SkipAtRestart ==
    IF trail = << >> THEN 0
    ELSE IF trail[Len(trail)].accepted THEN resumedAt
    ELSE trail[Len(trail)].opNumber + 1

RECURSIVE Replay(_, _, _, _)
\* the document d after the candidates from..(to - 1) of s, in order
Replay(d, s, from, to) ==
    IF from >= to THEN d ELSE Replay(ApplyOp(d, s[from + 1]), s, from + 1, to)

\* C26: in every pass the generator is the one of a fresh parse of the
\* committed markup, and the working document is that parse with the
\* candidates from skipOps (as the pass found it) on applied, none below it;
\* a submitted markup is the serialization of that document right after a
\* candidate that changed the serialization, all the candidates applied
\* before it in the pass having left it equal to the committed markup.
C26_SubmittedIsOneChangeFromCommitted ==
    LET base == parse(svgCode).doc
    IN  /\ pc = "next" =>
              /\ ops = cleaningOps(base)
              /\ doc = Replay(base, ops, SkipAtRestart, opNumber)
              /\ opNumber > SkipAtRestart => serialize(doc) = svgCode
        /\ pc = "compare" =>
              /\ ops = cleaningOps(base)
              /\ ~(opNumber < SkipAtRestart)
              /\ doc = Replay(base, ops, SkipAtRestart, opNumber + 1)
              /\ newSvgCode = serialize(doc)
              /\ newSvgCode # svgCode
              /\ \A j \in (SkipAtRestart + 1)..opNumber :
                    serialize(Replay(base, ops, SkipAtRestart, j)) = svgCode

\* C26: a markup is submitted in a pass that left candidates alone and
\* applied at least one without effect before the one that changed the
\* serialization
C26_Witness ==
    /\ pc = "compare"
    /\ SkipAtRestart > 0 /\ opNumber > SkipAtRestart

\* the place of a kind of candidate among the candidates of one node; 1 is
\* the place of the candidates of the node's descendants
Rank(kind) ==
    CASE kind = "removeChild" -> 0
      [] kind = "xlinkHref" -> 2
      [] kind = "removeAttribute" -> 3
      [] kind = "removeClass" -> 4
      [] kind = "removeStyle" -> 5
      [] kind = "inlineGradient" -> 6
      [] kind = "unwrap" -> 7

\* the node at path p is an ancestor of the node at path q
IsAncestor(p, q) == Len(p) < Len(q) /\ SubSeq(q, 1, Len(p)) = p

\* of two nodes neither of which is in the other, the one at p comes first in
\* the document
ComesBefore(p, q) ==
    \E k \in 1..Min(Len(p), Len(q)) :
        p[k] < q[k] /\ SubSeq(p, 1, k - 1) = SubSeq(q, 1, k - 1)

RECURSIVE PathsBelow(_, _)
\* the paths of the nodes below a node whose path is p and whose children are
\* childNodes
PathsBelow(childNodes, p) ==
    UNION { {Append(p, k)} \cup
            (IF childNodes[k].nodeType = "element"
             THEN PathsBelow(childNodes[k].childNodes, Append(p, k)) ELSE {})
            : k \in Indices(childNodes) }

\* the candidates s are those the claim gives for a document, in its order
InClaimedOrder(s, d) ==
    /\ \A a, b \in Indices(s) :
          a < b =>
              IF s[a].path = s[b].path
              THEN /\ Rank(s[a].kind) <= Rank(s[b].kind)
                   /\ Rank(s[a].kind) = Rank(s[b].kind) =>
                         s[a].kind \in {"removeAttribute", "removeClass", "removeStyle"}
              ELSE IF IsAncestor(s[a].path, s[b].path) THEN s[a].kind = "removeChild"
              ELSE IF IsAncestor(s[b].path, s[a].path) THEN Rank(s[b].kind) > 1
              ELSE ComesBefore(s[a].path, s[b].path)
    /\ \A a \in Indices(s) : s[a].path \in PathsBelow(d.childNodes, <<>>)
    /\ \A p \in PathsBelow(d.childNodes, <<>>) :
          LET own == { a \in Indices(s) : s[a].path = p }
              deletes == { a \in own : s[a].kind = "removeChild" }
          IN  /\ NodeAt(d.childNodes, p).nodeType # "element" =>
                    (Cardinality(own) = 1 /\ deletes = own)
              /\ Len(p) > 1 => Cardinality(deletes) = 1

\* C27: the candidates of a pass are in the claimed order: for a node, its
\* removal, then the candidates of its descendants, then the xlink:href
\* rewrite, the attribute removals, the class removals, the style property
\* removals, the gradient inlining and the unwrap, with at most one removal,
\* rewrite, inlining and unwrap per node; nodes that are not in one another
\* have their candidates in document order; a node that is not an element
\* has its removal and nothing else, and every child of an element has its
\* removal.
C27_CandidatesInFixedOrder ==
    pc \in {"next", "compare"} => InClaimedOrder(ops, parse(svgCode).doc)

\* C27: a pass whose generator yields, for one element, its removal, then a
\* candidate of a descendant, then its unwrap
C27_Witness ==
    /\ pc = "next"
    /\ \E a, b, e \in Indices(ops) :
          /\ a < b /\ b < e
          /\ ops[a].kind = "removeChild"
          /\ IsAncestor(ops[a].path, ops[b].path)
          /\ ops[e].kind = "unwrap" /\ ops[e].path = ops[a].path

\* the names of s that satisfy keep, in the order of s
Only(s, keep(_)) == SelectSeq(s, keep)

IsDeclaration(n) == IsNsDecl(n)
IsNoDeclaration(n) == ~IsNsDecl(n)

\* sorted has the names of attrNames, each once, those that declare no
\* namespace in the order they have in attrNames and in front of the others
SortedAsClaimed(attrNames, sorted) ==
    /\ Len(sorted) = Len(attrNames)
    /\ \A k \in Indices(attrNames) : \E j \in Indices(sorted) : sorted[j] = attrNames[k]
    /\ Only(sorted, IsNoDeclaration) = Only(attrNames, IsNoDeclaration)
    /\ \A j, k \in Indices(sorted) :
          (IsNsDecl(sorted[j]) /\ ~IsNsDecl(sorted[k])) => k < j

\* C28: in every pass, each element of the document has one attribute
\* removal among the candidates for each of its attributes that is not on the
\* allow-list and none for one that is, and sortAttrs gives its attribute
\* names as a permutation in which the names that declare no namespace keep
\* their order and come in front of all the namespace declarations.
C28_AttributeCandidatesAndOrder ==
    pc \in {"next", "compare"} =>
        LET d == parse(svgCode).doc
        IN  \A p \in PathsBelow(d.childNodes, <<>>) :
                LET el == NodeAt(d.childNodes, p)
                    names == [k \in Indices(el.attributes) |-> el.attributes[k].name]
                IN  el.nodeType = "element" =>
                        /\ \A k \in Indices(names) :
                              Cardinality({ a \in Indices(ops) :
                                              /\ ops[a].kind = "removeAttribute"
                                              /\ ops[a].path = p
                                              /\ ops[a].arg = names[k] })
                                  = (IF names[k] \in doNotRemoveAttrs THEN 0 ELSE 1)
                        /\ SortedAsClaimed(names, sortAttrs(names))

RECURSIVE Unwrapped(_, _, _)
\* the children after are the children before with the node at path replaced
\* by its own children, in their order, and nothing else changed
Unwrapped(before, after, path) ==
    LET k == path[1]
    IN  IF Len(path) = 1
        THEN LET inner == before[k].childNodes
             IN  /\ Len(after) = Len(before) - 1 + Len(inner)
                 /\ \A j \in 1..(k - 1) : after[j] = before[j]
                 /\ \A j \in Indices(inner) : after[k - 1 + j] = inner[j]
                 /\ \A j \in (k + 1)..Len(before) : after[j - 1 + Len(inner)] = before[j]
        ELSE /\ Len(after) = Len(before)
             /\ \A j \in Indices(before) : j # k => after[j] = before[j]
             /\ [after[k] EXCEPT !.childNodes = <<>>] = [before[k] EXCEPT !.childNodes = <<>>]
             /\ Unwrapped(before[k].childNodes, after[k].childNodes, Tail(path))

\* C29: in every pass the unwrap candidates are those of the elements named g
\* or svg that have an element for parent, one each; the step that applies
\* one replaces the element by its children, in place and in order, leaves
\* all other nodes as they were, and a submitted unwrap has backtrack 1.
C29_UnwrapOfGroups ==
    /\ [](pc \in {"next", "compare"} =>
            LET d == parse(svgCode).doc
            IN  \A p \in PathsBelow(d.childNodes, <<>>) :
                    Cardinality({ a \in Indices(ops) :
                                    ops[a].kind = "unwrap" /\ ops[a].path = p })
                        = (IF /\ NodeAt(d.childNodes, p).nodeType = "element"
                              /\ NodeAt(d.childNodes, p).nodeName \in {"g", "svg"}
                              /\ Len(p) > 1
                           THEN 1 ELSE 0))
    /\ [][ (Applies /\ ops[opNumber + 1].kind = "unwrap") =>
              /\ Unwrapped(doc.childNodes, doc'.childNodes, ops[opNumber + 1].path)
              /\ pc' = "compare" => backtrack' = Finite(1) ]_vars

\* C29: the unwrap of an element that has a child is submitted
C29_Witness ==
    /\ pc = "compare" /\ op.kind = "unwrap"
    /\ NodeAt(parse(svgCode).doc.childNodes, op.path).childNodes # <<>>
    /\ backtrack = Finite(1)

\* the paths, from a gradient, of the stop elements below it
StopsBelow(grad) ==
    { q \in PathsBelow(grad.childNodes, <<>>) :
        /\ NodeAt(grad.childNodes, q).nodeType = "element"
        /\ NodeAt(grad.childNodes, q).nodeName = "stop" }

\* the first of them in the document
FirstStop(grad) ==
    NodeAt(grad.childNodes,
           CHOOSE q \in StopsBelow(grad) :
               \A r \in StopsBelow(grad) : r = q \/ IsAncestor(q, r) \/ ComesBefore(q, r))

\* the attribute of a stop, or what stands for a missing or empty one
StopValue(stop, qname, default) ==
    IF HasAttribute(stop, qname) /\ GetAttribute(stop, qname) # ""
    THEN GetAttribute(stop, qname) ELSE default

\* an element is a gradient that can be inlined
Inlinable(n) ==
    /\ n.nodeType = "element"
    /\ n.nodeName \in {"linearGradient", "radialGradient"}
    /\ HasAttribute(n, "id")
    /\ StopsBelow(n) # {}

RECURSIVE Without(_, _)
\* the children without the node at path
Without(childNodes, path) ==
    IF Len(path) = 1 THEN RemoveAt(childNodes, path[1])
    ELSE [childNodes EXCEPT ![path[1]].childNodes = Without(@, Tail(path))]

\* the paint attributes of el that refer to the gradient of the candidate,
\* with the opacity attributes that go with them
Painted(el, o) ==
    LET refs == { n \in {"fill", "stroke"} :
                    HasAttribute(el, n) /\ GetAttribute(el, n) = "url(" \o o.arg \o ")" }
    IN  refs \cup { n \o "-opacity" : n \in refs }

RECURSIVE Repainted(_, _, _)
\* the node after is the node before with the paint attributes that refer to
\* the gradient set to the colour, their opacity attributes set to the
\* opacity, and every other attribute, and the order of the others, as before
Repainted(before, after, o) ==
    IF before.nodeType # "element" THEN after = before
    ELSE /\ [after EXCEPT !.childNodes = <<>>, !.attributes = <<>>]
                = [before EXCEPT !.childNodes = <<>>, !.attributes = <<>>]
         /\ \A n \in {"fill", "stroke"} :
                n \in Painted(before, o) =>
                    /\ HasAttribute(after, n) /\ GetAttribute(after, n) = o.color
                    /\ HasAttribute(after, n \o "-opacity")
                    /\ GetAttribute(after, n \o "-opacity") = o.opacity
         /\ SelectSeq(after.attributes, LAMBDA a : a.name \notin Painted(before, o))
                = SelectSeq(before.attributes, LAMBDA a : a.name \notin Painted(before, o))
         /\ Len(after.childNodes) = Len(before.childNodes)
         /\ \A k \in Indices(before.childNodes) :
                Repainted(before.childNodes[k], after.childNodes[k], o)

\* C30: in every pass the gradient inlining candidates are those of the
\* linearGradient and radialGradient elements that have an id and a stop
\* below them, one each, with the colour and the opacity of the first stop
\* (black and 1 when it has none); the step that applies one removes the
\* gradient, sets the fill and stroke attributes whose value is url(#id) to
\* the colour and their -opacity attributes to the opacity, and leaves every
\* other attribute and node as it was.
C30_GradientInlining ==
    /\ [](pc \in {"next", "compare"} =>
            LET d == parse(svgCode).doc
            IN  \A p \in PathsBelow(d.childNodes, <<>>) :
                    LET n == NodeAt(d.childNodes, p)
                        own == { a \in Indices(ops) :
                                    ops[a].kind = "inlineGradient" /\ ops[a].path = p }
                    IN  IF Inlinable(n)
                        THEN /\ Cardinality(own) = 1
                             /\ \A a \in own :
                                   /\ ops[a].arg = "#" \o GetAttribute(n, "id")
                                   /\ ops[a].color = StopValue(FirstStop(n), "stop-color", "black")
                                   /\ ops[a].opacity = StopValue(FirstStop(n), "stop-opacity", "1")
                        ELSE own = {})
    /\ [][ (Applies /\ ops[opNumber + 1].kind = "inlineGradient") =>
              LET o == ops[opNumber + 1]
                  left == Without(doc.childNodes, o.path)
              IN  /\ Len(doc'.childNodes) = Len(left)
                  /\ \A k \in Indices(left) : Repainted(left[k], doc'.childNodes[k], o) ]_vars

\* C30: the inlining of a gradient that two elements refer to, in fill and in
\* stroke, was accepted: the committed markup has the colour and the opacity
\* in their place
C30_Witness ==
    /\ pc = "loop" /\ verdict = "accepted" /\ op.kind = "inlineGradient"
    /\ \E k \in Indices(svgCode[1].children) :
          /\ GetAttr(svgCode[1].children[k].attrs, "fill") = op.color
          /\ GetAttr(svgCode[1].children[k].attrs, "stroke-opacity") = op.opacity

\* C21: when the command line tool has ended and one of its files could not
\* be read or could not be processed, its exit status is not 0; a file that
\* could not be read or processed does not keep the tool from returning
\* with every other file done.
C21_FailureGivesNonZeroExit ==
    /\ (mainPc \in {"returned", "exited"}
          /\ \E f \in Files : files[f] \in {"unreadable", "failed"}) => exitCode # 0
    /\ mainPc = "returned" => \A f \in Files : FileDone(f)

\* C22: no call of destroy leaves a rejection without a handler, on a browser
\* that is launching, launched, closed or that failed to launch, for the
\* first call and for the ones after it; once the callbacks of the destroy
\* calls have run, the browser is closed or never started.
C22_DestroyLeavesNothingBehind ==
    /\ unhandled = 0
    /\ \A b \in Instances :
          (browsers[b].destroys > 0 /\ browsers[b].thens = 0 /\ browsers[b].catches = 0)
              => browsers[b].state \in {"closed", "failed"}

\* the attribute of el that is href in the xlink namespace
IsXlinkHref(a) == a.namespaceURI = XLINK_NS /\ LocalName(a.name) = "href"

\* after is before with its xlink href renamed to href, where it was, and
\* with every other attribute under its name, with its value, where it was
HrefInPlace(before, after) ==
    /\ Len(after.attributes) = Len(before.attributes)
    /\ \A k \in Indices(before.attributes) :
          /\ after.attributes[k].value = before.attributes[k].value
          /\ after.attributes[k].name =
                (IF IsXlinkHref(before.attributes[k]) THEN "href"
                 ELSE before.attributes[k].name)
    /\ \A k \in Indices(after.attributes) : ~IsXlinkHref(after.attributes[k])

\* C31: in every pass the xlink:href rewrite is a candidate of exactly the
\* elements that have an href attribute in the xlink namespace; the step that
\* applies it leaves the element without xlink:href, with an href of the
\* value xlink:href had, in the place xlink:href had, and with all its other
\* attributes under their names, with their values, in their order.
C31_HrefTakesThePlaceOfXlinkHref ==
    /\ [](pc \in {"next", "compare"} =>
            LET d == parse(svgCode).doc
            IN  \A p \in PathsBelow(d.childNodes, <<>>) :
                    Cardinality({ a \in Indices(ops) :
                                    ops[a].kind = "xlinkHref" /\ ops[a].path = p })
                        = (IF /\ NodeAt(d.childNodes, p).nodeType = "element"
                              /\ \E k \in Indices(NodeAt(d.childNodes, p).attributes) :
                                    IsXlinkHref(NodeAt(d.childNodes, p).attributes[k])
                           THEN 1 ELSE 0))
    /\ [][ (Applies /\ ops[opNumber + 1].kind = "xlinkHref") =>
              HrefInPlace(NodeAt(doc.childNodes, ops[opNumber + 1].path),
                          NodeAt(doc'.childNodes, ops[opNumber + 1].path)) ]_vars

\* ---------------------------------------------------------------------------
\* C32
\* ---------------------------------------------------------------------------

\* the number of places of the sequence s that hold x
Occurrences(s, x) == Cardinality({ k \in Indices(s) : s[k] = x })

\* the two sequences hold the same fragments, each as many times
SameFragments(s, t) ==
    /\ Len(s) = Len(t)
    /\ \A k \in Indices(s) : Occurrences(s, s[k]) = Occurrences(t, s[k])

\* the place of the root element among the nodes of the markup, 0 without one
RootIndex(nodes) ==
    IF \E k \in Indices(nodes) : nodes[k].type = "element"
    THEN CHOOSE k \in Indices(nodes) : nodes[k].type = "element"
    ELSE 0

\* after differs from before in the attributes of the root opening tag alone,
\* and these are the fragments of before in some order
RootAttrsReordered(before, after) ==
    /\ Len(after) = Len(before)
    /\ \A k \in Indices(before) :
          IF k = RootIndex(before)
          THEN /\ [after[k] EXCEPT !.attrs = <<>>] = [before[k] EXCEPT !.attrs = <<>>]
               /\ SameFragments(before[k].attrs, after[k].attrs)
          ELSE after[k] = before[k]
    /\ (RootIndex(before) # 0 /\ before[RootIndex(before)].attrs = <<>>) => after = before

C32_WitnessBare ==
    /\ pc = "done" /\ ~reordered
    /\ RootIndex(output) # 0
    /\ output[RootIndex(output)].attrs = <<>>

\* ---------------------------------------------------------------------------
\* C33
\* ---------------------------------------------------------------------------

\* the pool where every _createPage delivers its page
PoolNextCreating ==
    \/ \E c \in Callers : Alloc(c)
    \/ \E p \in Callers : PageCreated(p)
    \/ Resume
    \/ \E c \in Callers : EvaluateReturns(c)
    \/ \E c \in Callers : EvaluateThrows(c)

\* page.evaluate of the call c ends, one way or the other, so that the
\* finally block of line 1089 frees the page
Ends(c) == EvaluateReturns(c) \/ EvaluateThrows(c)

\* every page that is being created is delivered, the jobs of the microtask
\* queue run, and every call that holds a page frees it
PoolFairSpec ==
    /\ PoolInit
    /\ [][PoolNextCreating]_vars
    /\ \A p \in Callers : WF_vars(PageCreated(p))
    /\ WF_vars(Resume)
    /\ \A c \in Callers : WF_vars(Ends(c))

\* no resolver is queued while a page is free
NoWaiterBesideFreePage == ~(resolutionQueue # <<>> /\ freePages # <<>>)

\* the promise of alloc() of the call c is pending
Waits(c) == callers[c].pc = "waiting"

\* the promise of alloc() of the call c is resolved with a page
HasPage(c) == callers[c].pc = "resolved" /\ callers[c].page \in DOMAIN pages

\* C33: when every page under creation is delivered and every page handed
\* out is freed, every alloc call whose promise is pending is resolved with
\* a page in the end, and at no moment between two calls is a resolver
\* queued while a page is free.
C33_EveryAllocIsResolved ==
    /\ []NoWaiterBesideFreePage
    /\ \A c \in Callers : Waits(c) ~> HasPage(c)

\* C33: a call waits while the pool has all the pages it may have, none of
\* them free and none under creation: only a free() can resolve it
C33_Witness ==
    \E c \in Callers :
        /\ Waits(c)
        /\ poolSize = maxPages
        /\ freePages = <<>>
        /\ \A p \in DOMAIN pages : pages[p] = "ready"

\* ---------------------------------------------------------------------------
\* C34
\* ---------------------------------------------------------------------------

\* the root element of a markup parse accepts
RootElement(markup) == DocumentElement(parse(markup).doc)

\* what the root sets for the property itself: the declaration of its style
\* and, for fill and color, which are presentation attributes too, the
\* attribute when the style has no declaration; "" when it sets nothing
ExplicitValue(el, prop) ==
    IF StyleValue(el, prop) # "" THEN StyleValue(el, prop)
    ELSE IF prop \in {"fill", "color"} THEN Trim(GetAttribute(el, prop))
    ELSE ""

PolicyProps == {"background", "fill", "color"}

\* the copy paints with every value the root of the markup sets itself
NothingOverridden(markup, copy) ==
    \A prop \in PolicyProps :
        ExplicitValue(RootElement(markup), prop) # "" =>
            /\ StyleValue(RootElement(copy), prop) \in {"", StyleValue(RootElement(markup), prop)}
            /\ ExplicitValue(RootElement(copy), prop) = ExplicitValue(RootElement(markup), prop)

\* the root of the markup sets nothing for the three properties but what the
\* root of the argument sets
NothingInjected(markup) ==
    \A prop \in PolicyProps :
        ExplicitValue(RootElement(markup), prop)
            \in {"", ExplicitValue(RootElement(input), prop)}

\* C34: the defaults a comparison policy sets are in the copies handed to the
\* rasterizer alone, never in the committed markup nor in what minimize
\* returns, and no copy changes a background, fill or colour that the root
\* of the markup sets itself.
C34_DefaultsOnlyInTheCopies ==
    /\ (pc \in {"next", "compare", "finish", "done"} /\ parse(svgCode).ok) =>
           NothingInjected(svgCode)
    /\ (pc = "done" /\ parse(output).ok) => NothingInjected(output)
    /\ (pc = "compare" /\ Len(rasterized) = 2) =>
           /\ NothingOverridden(newSvgCode, rasterized[1])
           /\ NothingOverridden(svgCode, rasterized[2])

=============================================================================
